---- MODULE Spec2Model ----
(***************************************************************************)
(* Model of the experimental tensor-network simulator device               *)
(* (pennylane/plugins/expt_tensornet.py, class TensorNetwork).             *)
(*                                                                         *)
(* Amplitudes are exact: <<a, b, c, d, k>> stands for the complex number    *)
(* (a + b w + c w^2 + d w^3) / 2^k with w = e^(i pi/4) and k as small as    *)
(* possible, which holds the entries of every matrix of the tables (1/sqrt *)
(* 2 is (w - w^3)/2).  A real number is an amplitude with c = 0, d = -b.   *)
(* An angle is an integer m standing for m * pi/2.  A tensor of rank r     *)
(* (every axis of dimension 2) is the flat row-major sequence of its 2^r   *)
(* entries, as numpy stores it.                                            *)
(*                                                                         *)
(* The objects of the tensornetwork library live in the variable heap:     *)
(* heap.nodes[i] is the Node with identity i, heap.edges[j] the Edge with  *)
(* identity j.  Node.edges holds Edge identities, because the library (and *)
(* the device's free-edge table) compare Edge objects by identity.         *)
(***************************************************************************)
EXTENDS Integers, Sequences, FiniteSets, TLC

\* ----------------------------------------------------------------- bounds
MaxWires == 2
MaxOps == 2
MaxShots == 2

\* tolerance = 1e-10 = 10^(-ToleranceExp)
ToleranceExp == 10

\* ------------------------------------------------------- complex numbers
Abs(x) == IF x < 0 THEN -x ELSE x

Pow2(k) == IF k <= 0 THEN 1 ELSE 2^k

RECURSIVE Log2(_)
Log2(m) == IF m <= 1 THEN 0 ELSE 1 + Log2(m \div 2)

\* the one element of a singleton set.  Only({e : v \in {x}}) is e with v
\* bound to the value of x, which is evaluated once; in a nest of these the
\* bindings are made from the last line upwards.
Only(s) == CHOOSE r \in s : TRUE

\* the representation with the smallest k
RECURSIVE CRed(_)
CRed(a) ==
    Only({IF x[5] > 0 /\ x[1] % 2 = 0 /\ x[2] % 2 = 0 /\ x[3] % 2 = 0 /\ x[4] % 2 = 0
        THEN CRed(<<x[1] \div 2, x[2] \div 2, x[3] \div 2, x[4] \div 2, x[5] - 1>>)
        ELSE x
        : x \in {a}})

\* the integer m
CInt(m) == <<m, 0, 0, 0, 0>>

CZero == CInt(0)
COne == CInt(1)
CI == <<0, 0, 1, 0, 0>>

\* nan, the entry of np.array(None): no number of the ring (k = -1)
CNaN == <<0, 0, 0, 0, -1>>

CNeg(a) == Only({<<-x[1], -x[2], -x[3], -x[4], x[5]>> : x \in {a}})

\* the sum over the common denominator 2^k
CAdd(a, b) ==
    Only({Only({
        IF x = CZero THEN y
        ELSE IF y = CZero THEN x
        ELSE Only({CRed(<<x[1] * Pow2(k - x[5]) + y[1] * Pow2(k - y[5]),
                          x[2] * Pow2(k - x[5]) + y[2] * Pow2(k - y[5]),
                          x[3] * Pow2(k - x[5]) + y[3] * Pow2(k - y[5]),
                          x[4] * Pow2(k - x[5]) + y[4] * Pow2(k - y[5]), k>>)
                 : k \in {IF x[5] > y[5] THEN x[5] ELSE y[5]}})
        : y \in {b}})
        : x \in {a}})

CSub(a, b) == CAdd(a, CNeg(b))

\* the product of the polynomials in w, with w^4 = -1
CMul(a, b) ==
    Only({IF x = CZero THEN CZero ELSE Only({
        IF y = CZero THEN CZero
        ELSE IF x = COne THEN y
        ELSE IF y = COne THEN x
        ELSE CRed(<<x[1] * y[1] - x[2] * y[4] - x[3] * y[3] - x[4] * y[2],
                    x[1] * y[2] + x[2] * y[1] - x[3] * y[4] - x[4] * y[3],
                    x[1] * y[3] + x[2] * y[2] + x[3] * y[1] - x[4] * y[4],
                    x[1] * y[4] + x[2] * y[3] + x[3] * y[2] + x[4] * y[1],
                    x[5] + y[5]>>)
        : y \in {b}})
        : x \in {a}})

\* the conjugate of w is -w^3
CConj(a) == Only({<<x[1], -x[4], -x[3], -x[2], x[5]>> : x \in {a}})

\* a / 2
CHalf(a) == Only({CRed(<<x[1], x[2], x[3], x[4], x[5] + 1>>) : x \in {a}})

\* np.real(a) = (a + conj(a)) / 2 and np.imag(a) = (a - conj(a)) / (2i)
RealPart(a) == Only({CHalf(CAdd(x, CConj(x))) : x \in {a}})
ImagPart(a) == Only({CHalf(CMul(CSub(x, CConj(x)), CNeg(CI))) : x \in {a}})

\* the sign (-1, 0, 1) of the real number (p + q sqrt(2)) / 2^k, which is
\* the amplitude <<p, q, 0, -q, k>>
Sign(a) ==
    Only({IF x[1] = 0 /\ x[2] = 0 THEN 0
        ELSE IF x[1] >= 0 /\ x[2] >= 0 THEN 1
        ELSE IF x[1] <= 0 /\ x[2] <= 0 THEN -1
        ELSE IF x[1] > 0 THEN (IF x[1] * x[1] > 2 * x[2] * x[2] THEN 1 ELSE -1)
        ELSE (IF 2 * x[2] * x[2] > x[1] * x[1] THEN 1 ELSE -1)
        : x \in {a}})

\* a < b, for real numbers
CLess(a, b) == Sign(CSub(b, a)) = 1

\* e^(i j pi/4), cos(j pi/4) and sin(j pi/4)
Expi(j) ==
    Only({Only({[i \in 1..5 |-> IF i = (r % 4) + 1 THEN s ELSE 0]
        : s \in {IF r >= 4 THEN -1 ELSE 1}})
        : r \in {j % 8}})
Cos(j) == CHalf(CAdd(Expi(j), Expi(-j)))
Sin(j) == CHalf(CMul(CSub(Expi(j), Expi(-j)), CNeg(CI)))

Range(s) == {s[i] : i \in 1..Len(s)}
PosIn(s, x) == CHOOSE i \in 1..Len(s) : s[i] = x

RECURSIVE SumTo(_, _, _)
SumTo(f(_), lo, hi) == IF lo > hi THEN 0 ELSE f(lo) + SumTo(f, lo + 1, hi)

RECURSIVE CSumTo(_, _, _)
CSumTo(f(_), lo, hi) == IF lo > hi THEN CZero ELSE CAdd(f(lo), CSumTo(f, lo + 1, hi))

RECURSIVE SelectIdx(_, _, _)
\* the indices i (1-based) of s, in order, with keep(i)
SelectIdx(keep(_), i, n) ==
    IF i > n THEN <<>>
    ELSE (IF keep(i) THEN <<i>> ELSE <<>>) \o SelectIdx(keep, i + 1, n)

\* --------------------------------------------------------------- tensors
Rank(t) == Log2(Len(t))

\* bit of axis j (0-based, axis 0 slowest) of the 0-based flat index k, r axes
Bit(k, r, j) == (k \div Pow2(r - 1 - j)) % 2

\* 0-based flat index of the multi-index b(0), ..., b(r-1)
Flat(b(_), r) == SumTo(LAMBDA j : b(j) * Pow2(r - 1 - j), 0, r - 1)

\* np.array(None): an array without axes, of one entry
NoneArray == <<>>

Min(a, b) == IF a < b THEN a ELSE b

\* np.reshape(A, [2] * r) of a 2^k x 2^k matrix given as a sequence of rows:
\* row-major data is unchanged; the array without axes keeps its one entry
FlattenMatrix(A) ==
    IF A = NoneArray THEN <<CNaN>>
    ELSE [k \in 1..(Len(A) * Len(A)) |->
             A[((k - 1) \div Len(A)) + 1][((k - 1) % Len(A)) + 1]]

\* A @ A raises for an array without axes
MatMulOk(A) == A # NoneArray

\* A @ A for a square matrix given as a sequence of rows
MatMul(A, B) == [i \in 1..Len(A) |-> [j \in 1..Len(A) |->
                    CSumTo(LAMBDA k : CMul(A[i][k], B[k][j]), 1, Len(A))]]

\* np.conj
TConj(t) == [k \in 1..Len(t) |-> CConj(t[k])]

\* np.transpose(t, perm): axis j of the result is axis perm[j+1] of t
Transpose(t, perm) ==
    Only({Only({[k \in 1..Len(t) |-> t[1 + Flat(LAMBDA a : Bit(k - 1, r, inv[a]), r)]]
        : inv \in {[a \in 0..(r - 1) |-> PosIn(perm, a) - 1]}})
        : r \in {Rank(t)}})

\* np.tensordot(A, B, [axes1, axes2]): the free axes of A in order, then
\* those of B; axes are 0-based.  src1[j] tells where axis j of A takes its
\* index from: <<TRUE, q>> is position q of the summed index, <<FALSE, q>>
\* is axis q of the result; src2 likewise for B.
Tensordot(A, B, axes1, axes2) ==
    Only({Only({Only({Only({Only({Only({Only({Only({[k \in 1..Pow2(r) |->
            CSumTo(LAMBDA s :
                CMul(A[1 + Flat(LAMBDA j : IF src1[j][1] THEN Bit(s, c, src1[j][2])
                                           ELSE Bit(k - 1, r, src1[j][2]), rA)],
                     B[1 + Flat(LAMBDA j : IF src2[j][1] THEN Bit(s, c, src2[j][2])
                                           ELSE Bit(k - 1, r, src2[j][2]), rB)]),
                0, Pow2(c) - 1)]
        : rB \in {Rank(B)}})
        : rA \in {Rank(A)}})
        : r \in {Len(freeA) + Len(freeB)}})
        : src2 \in {[j \in 0..(Rank(B) - 1) |->
            IF j \in Range(axes2) THEN <<TRUE, PosIn(axes2, j) - 1>>
            ELSE <<FALSE, Len(freeA) + PosIn(freeB, j + 1) - 1>>]}})
        : src1 \in {[j \in 0..(Rank(A) - 1) |->
            IF j \in Range(axes1) THEN <<TRUE, PosIn(axes1, j) - 1>>
            ELSE <<FALSE, PosIn(freeA, j + 1) - 1>>]}})
        : freeB \in {SelectIdx(LAMBDA i : (i - 1) \notin Range(axes2), 1, Rank(B))}})
        : freeA \in {SelectIdx(LAMBDA i : (i - 1) \notin Range(axes1), 1, Rank(A))}})
        : c \in {Len(axes1)}})

\* ------------------------------------------- tensornetwork: Node and Edge
\* Edge.node2 of a dangling edge is None
NoNode == 0
NoAxis == -1

EmptyHeap == [nodes |-> <<>>, edges |-> <<>>]

\* the identity the next tn.Node(...) gets
NewNodeId(h) == Len(h.nodes) + 1

IsDangling(h, e) == h.edges[e].node2 = NoNode

\* tn.Node(tensor, name=name): one dangling Edge per axis
TnNode(h, tensor, name) ==
    LET id == NewNodeId(h)
        r == Rank(tensor)
        e0 == Len(h.edges)
    IN [nodes |-> Append(h.nodes, [tensor |-> tensor, name |-> name,
                                   edges |-> [a \in 1..r |-> e0 + a]]),
        edges |-> h.edges \o [a \in 1..r |->
                     [node1 |-> id, axis1 |-> a - 1, node2 |-> NoNode, axis2 |-> NoAxis]]]

\* Node.fresh_edges(): every axis of node n gets a new dangling Edge
FreshEdges(h, n) ==
    LET r == Len(h.nodes[n].edges)
        e0 == Len(h.edges)
    IN [nodes |-> [h.nodes EXCEPT ![n].edges = [a \in 1..r |-> e0 + a]],
        edges |-> h.edges \o [a \in 1..r |->
                     [node1 |-> n, axis1 |-> a - 1, node2 |-> NoNode, axis2 |-> NoAxis]]]

\* tn.connect(edge1, edge2) raises unless both are dangling and distinct
TnConnectOk(h, e1, e2) == IsDangling(h, e1) /\ IsDangling(h, e2) /\ e1 # e2

\* tn.connect(edge1, edge2): a new Edge replaces both on their nodes; the
\* two dangling Edge objects are left as they are
TnConnect(h, e1, e2) ==
    LET n1 == h.edges[e1].node1
        a1 == h.edges[e1].axis1
        n2 == h.edges[e2].node1
        a2 == h.edges[e2].axis1
        new == Len(h.edges) + 1
    IN [nodes |-> [[h.nodes EXCEPT ![n1].edges[a1 + 1] = new]
                                EXCEPT ![n2].edges[a2 + 1] = new],
        edges |-> Append(h.edges,
                     [node1 |-> n1, axis1 |-> a1, node2 |-> n2, axis2 |-> a2])]

\* tn.conj(node): a new node holding the conjugated tensor
TnConj(h, n) == TnNode(h, TConj(h.nodes[n].tensor), <<"conj", <<>>>>)

\* Edge.update_axis(old_node, old_axis, new_axis, new_node)
UpdateAxis(e, old_node, old_axis, new_axis, new_node) ==
    IF e.axis1 = old_axis /\ e.node1 = old_node
    THEN [e EXCEPT !.axis1 = new_axis, !.node1 = new_node]
    ELSE [e EXCEPT !.axis2 = new_axis, !.node2 = new_node]

\* the axis (0-based) that edge e occupies on node n
AxisOn(h, n, e) == PosIn(h.nodes[n].edges, e) - 1

\* get_shared_edges(node1, node2), listed by their axis on node1
SharedEdges(h, n1, n2) ==
    Only({Only({[i \in 1..Len(pos) |-> es[pos[i]]]
        : pos \in {SelectIdx(LAMBDA i : {h.edges[es[i]].node1, h.edges[es[i]].node2} = {n1, n2},
                   1, Len(es))}})
        : es \in {h.nodes[n1].edges}})

\* the edges of node n that are not in the sequence shared, in axis order
RemainingEdges(h, n, shared) ==
    Only({Only({[i \in 1..Len(pos) |-> es[pos[i]]]
        : pos \in {SelectIdx(LAMBDA i : es[i] \notin Range(shared), 1, Len(es))}})
        : es \in {h.nodes[n].edges}})

\* contract_between flips its arguments when output_edge_order places the
\* edges of node1, on average, after those of node2
FlipArguments(h, n1, n2, order) ==
    Only({Only({(Len(on1) > 0 /\ Len(on2) > 0
                 /\ SumTo(LAMBDA i : on1[i], 1, Len(on1)) * Len(on2)
                       > SumTo(LAMBDA i : on2[i], 1, Len(on2)) * Len(on1))
        : on2 \in {SelectIdx(LAMBDA i : /\ n1 \notin {h.edges[order[i]].node1, h.edges[order[i]].node2}
                              /\ n2 \in {h.edges[order[i]].node1, h.edges[order[i]].node2},
                   1, Len(order))}})
        : on1 \in {SelectIdx(LAMBDA i : n1 \in {h.edges[order[i]].node1, h.edges[order[i]].node2},
                   1, Len(order))}})

\* contract_between raises, before it contracts, when an edge of
\* output_edge_order touches neither node
OrderConnected(h, n1, n2, order) ==
    \A i \in 1..Len(order) :
        ({h.edges[order[i]].node1, h.edges[order[i]].node2} \cap {n1, n2}) # {}

\* _remove_edges(shared, node1, node2, new_node): the uncontracted edges of
\* node1, then of node2, move to new; node1 and node2 get fresh edges
RemoveEdges(h, shared, n1, n2, new) ==
    Only({Only({Only({Only({Only({FreshEdges(h2, n2) : h2 \in {FreshEdges(h1, n1)}})
        : h1 \in {[nodes |-> [h.nodes EXCEPT ![new].edges = rem],
          edges |-> [e \in 1..Len(h.edges) |->
                       IF e \in Range(rem)
                       THEN UpdateAxis(h.edges[e], old[PosIn(rem, e)],
                                       AxisOn(h, old[PosIn(rem, e)], e),
                                       PosIn(rem, e) - 1, new)
                       ELSE h.edges[e]]]}})
        : old \in {[i \in 1..Len(rem) |-> IF i <= Len(r1) THEN n1 ELSE n2]}})
        : rem \in {r1 \o RemainingEdges(h, n2, shared)}})
        : r1 \in {RemainingEdges(h, n1, shared)}})

\* Node.reorder_edges(edge_order) raises unless edge_order holds exactly the
\* node's Edge objects
ReorderOk(h, n, order) == Range(order) = Range(h.nodes[n].edges)

\* Node.reorder_edges(edge_order)
ReorderEdges(h, n, order) ==
    Only({[nodes |-> [h.nodes EXCEPT ![n].edges = order,
                                   ![n].tensor = Transpose(@, perm)],
         edges |-> [e \in 1..Len(h.edges) |->
                      IF e \in Range(order)
                      THEN UpdateAxis(h.edges[e], n, AxisOn(h, n, e), PosIn(order, e) - 1, n)
                      ELSE h.edges[e]]]
        : perm \in {[i \in 1..Len(order) |-> AxisOn(h, n, order[i])]}})

\* contract_between once its checks have passed: m1, m2 are the nodes in
\* the order tensordot gets them
Contracted(h, shared, m1, m2, order) ==
    Only({Only({Only({IF Len(order) = 0 THEN [h |-> h2, ok |-> TRUE, node |-> new]
        ELSE IF ReorderOk(h2, new, order)
        THEN [h |-> ReorderEdges(h2, new, order), ok |-> TRUE, node |-> new]
        ELSE [h |-> h2, ok |-> FALSE, node |-> NoNode]
        : h2 \in {RemoveEdges(h1, shared, m1, m2, new)}})
        : h1 \in {TnNode(h, Tensordot(h.nodes[m1].tensor, h.nodes[m2].tensor,
                             [i \in 1..Len(shared) |-> AxisOn(h, m1, shared[i])],
                             [i \in 1..Len(shared) |-> AxisOn(h, m2, shared[i])]),
                <<"__unnamed_node__", <<>>>>)}})
        : new \in {NewNodeId(h)}})

\* tn.contract_between(node1, node2, output_edge_order=order), with order
\* <<>> for None.  The result is [h, ok, node]: ok is FALSE when the call
\* raises, and h is the heap as the call leaves it either way.
ContractBetween(h, n1, n2, order) ==
    Only({IF Len(shared) = 0
             \/ (Range(order) \cap Range(shared)) # {}
             \/ ~OrderConnected(h, n1, n2, order)
        THEN [h |-> h, ok |-> FALSE, node |-> NoNode]
        ELSE IF Len(order) > 0 /\ FlipArguments(h, n1, n2, order)
        THEN Contracted(h, shared, n2, n1, order)
        ELSE Contracted(h, shared, n1, n2, order)
        : shared \in {SharedEdges(h, n1, n2)}})

\* ------------------------------------------------------ operator matrices
\* matrices of pennylane.plugins.default_qubit, as sequences of rows; Mat
\* is an array of integers
Mat(rows) == [i \in 1..Len(rows) |-> [j \in 1..Len(rows[i]) |-> CInt(rows[i][j])]]

\* c * A and A + B
Scaled(c, A) == [i \in 1..Len(A) |-> [j \in 1..Len(A[i]) |-> CMul(c, A[i][j])]]
MatAdd(A, B) == [i \in 1..Len(A) |-> [j \in 1..Len(A[i]) |-> CAdd(A[i][j], B[i][j])]]

\* 1 / sqrt(2) = (w - w^3) / 2
InvSqrt2 == CHalf(CSub(Expi(1), Expi(3)))

identity == Mat(<<<<1, 0>>, <<0, 1>>>>)
X == Mat(<<<<0, 1>>, <<1, 0>>>>)
Y == <<<<CZero, CNeg(CI)>>, <<CI, CZero>>>>
Z == Mat(<<<<1, 0>>, <<0, -1>>>>)
H == Scaled(InvSqrt2, Mat(<<<<1, 1>>, <<1, -1>>>>))
S == <<<<COne, CZero>>, <<CZero, CI>>>>
T == <<<<COne, CZero>>, <<CZero, Expi(1)>>>>
CNOT == Mat(<<<<1, 0, 0, 0>>, <<0, 1, 0, 0>>, <<0, 0, 0, 1>>, <<0, 0, 1, 0>>>>)
SWAP == Mat(<<<<1, 0, 0, 0>>, <<0, 0, 1, 0>>, <<0, 1, 0, 0>>, <<0, 0, 0, 1>>>>)
CZ == Mat(<<<<1, 0, 0, 0>>, <<0, 1, 0, 0>>, <<0, 0, 1, 0>>, <<0, 0, 0, -1>>>>)
CSWAP == Mat(<<<<1, 0, 0, 0, 0, 0, 0, 0>>, <<0, 1, 0, 0, 0, 0, 0, 0>>,
               <<0, 0, 1, 0, 0, 0, 0, 0>>, <<0, 0, 0, 1, 0, 0, 0, 0>>,
               <<0, 0, 0, 0, 1, 0, 0, 0>>, <<0, 0, 0, 0, 0, 0, 1, 0>>,
               <<0, 0, 0, 0, 0, 1, 0, 0>>, <<0, 0, 0, 0, 0, 0, 0, 1>>>>)
Toffoli == Mat(<<<<1, 0, 0, 0, 0, 0, 0, 0>>, <<0, 1, 0, 0, 0, 0, 0, 0>>,
                 <<0, 0, 1, 0, 0, 0, 0, 0>>, <<0, 0, 0, 1, 0, 0, 0, 0>>,
                 <<0, 0, 0, 0, 1, 0, 0, 0>>, <<0, 0, 0, 0, 0, 1, 0, 0>>,
                 <<0, 0, 0, 0, 0, 0, 0, 1>>, <<0, 0, 0, 0, 0, 0, 1, 0>>>>)

\* the functions of an angle; the angle m * pi/2 is given as m, so that
\* half the angle is m * pi/4
\* Rphi(phi): diag(1, e^(i phi))
Rphi(phi) == <<<<COne, CZero>>, <<CZero, Expi(2 * phi)>>>>

\* Rotx(theta) = cos(theta/2) I + i sin(-theta/2) X; Roty and Rotz likewise
Rotx(theta) == MatAdd(Scaled(Cos(theta), identity), Scaled(CMul(CI, Sin(-theta)), X))
Roty(theta) == MatAdd(Scaled(Cos(theta), identity), Scaled(CMul(CI, Sin(-theta)), Y))
Rotz(theta) == MatAdd(Scaled(Cos(theta), identity), Scaled(CMul(CI, Sin(-theta)), Z))

\* Rot3(a, b, c) = Rotz(c) @ (Roty(b) @ Rotz(a))
Rot3(a, b, c) == MatMul(Rotz(c), MatMul(Roty(b), Rotz(a)))

\* the controlled rotations: the identity on the first two basis states and
\* the block <<<<u, v>>, <<w, z>>>> on the last two
Controlled(u, v, w, z) ==
    <<<<COne, CZero, CZero, CZero>>, <<CZero, COne, CZero, CZero>>,
      <<CZero, CZero, u, v>>, <<CZero, CZero, w, z>>>>

CRotx(theta) ==
    Controlled(Cos(theta), CMul(CNeg(CI), Sin(theta)),
               CMul(CNeg(CI), Sin(theta)), Cos(theta))
CRoty(theta) == Controlled(Cos(theta), CNeg(Sin(theta)), Sin(theta), Cos(theta))
CRotz(theta) == Controlled(Expi(-theta), CZero, CZero, Expi(theta))
CRot3(a, b, c) ==
    Controlled(CMul(Expi(-(a + c)), Cos(b)), CNeg(CMul(Expi(a - c), Sin(b))),
               CMul(Expi(-(a - c)), Sin(b)), CMul(Expi(a + c), Cos(b)))

\* A.shape[0] == A.shape[1], for a sequence of rows of one length
IsSquare(A) == \A i \in 1..Len(A) : Len(A[i]) = Len(A)

\* A.conj().T
ConjTranspose(A) == [j \in 1..Len(A[1]) |-> [i \in 1..Len(A) |-> CConj(A[i][j])]]

IdentityMatrix(m) == [i \in 1..m |-> [j \in 1..m |-> IF i = j THEN COne ELSE CZero]]

\* hermitian(A) raises unless A is square and equal to its conjugate
\* transpose, unitary(U) unless U is square and U @ U.conj().T is the
\* identity; the comparisons (np.allclose, atol = tolerance) are made on
\* exact entries, which differ by nothing or by more than the tolerance
hermitianOk(A) == IsSquare(A) /\ A = ConjTranspose(A)
unitaryOk(U) == IsSquare(U) /\ MatMul(U, ConjTranspose(U)) = IdentityMatrix(Len(U))

\* _operation_map and _observable_map: the entry of a name is its matrix,
\* <<>> for None, and the name of its function when it is one
_operation_map ==
    [BasisState |-> <<>>, QubitStateVector |-> <<>>, QubitUnitary |-> "unitary",
     PauliX |-> X, PauliY |-> Y, PauliZ |-> Z, Hadamard |-> H, S |-> S, T |-> T,
     CNOT |-> CNOT, SWAP |-> SWAP, CSWAP |-> CSWAP, Toffoli |-> Toffoli, CZ |-> CZ,
     PhaseShift |-> "Rphi", RX |-> "Rotx", RY |-> "Roty", RZ |-> "Rotz",
     Rot |-> "Rot3", CRX |-> "CRotx", CRY |-> "CRoty", CRZ |-> "CRotz",
     CRot |-> "CRot3"]
_observable_map ==
    [PauliX |-> X, PauliY |-> Y, PauliZ |-> Z, Hadamard |-> H,
     Hermitian |-> "hermitian", Identity |-> identity]

\* the names whose table entry is a function of the parameters
Callable == {"QubitUnitary", "Hermitian", "PhaseShift", "RX", "RY", "RZ", "Rot",
             "CRX", "CRY", "CRZ", "CRot"}

KnownName(operation) ==
    operation \in (DOMAIN _operation_map) \cup (DOMAIN _observable_map)

\* A(*par) raises unless par has as many entries as the function has
\* arguments; unitary and hermitian read the first of any number and raise
\* unless it is a matrix of their kind
ParOk(operation, par) ==
    IF operation = "QubitUnitary" THEN Len(par) >= 1 /\ unitaryOk(par[1])
    ELSE IF operation = "Hermitian" THEN Len(par) >= 1 /\ hermitianOk(par[1])
    ELSE IF operation \in {"Rot", "CRot"} THEN Len(par) = 3
    ELSE IF operation \in Callable THEN Len(par) = 1
    ELSE TRUE

\* A(*par) for the function named f; unitary(par[0]) and hermitian(par[0])
\* return the matrix they have checked
Call(f, par) ==
    CASE f \in {"unitary", "hermitian"} -> par[1]
      [] f = "Rphi" -> Rphi(par[1])
      [] f = "Rotx" -> Rotx(par[1])
      [] f = "Roty" -> Roty(par[1])
      [] f = "Rotz" -> Rotz(par[1])
      [] f = "Rot3" -> Rot3(par[1], par[2], par[3])
      [] f = "CRotx" -> CRotx(par[1])
      [] f = "CRoty" -> CRoty(par[1])
      [] f = "CRotz" -> CRotz(par[1])
      [] f = "CRot3" -> CRot3(par[1], par[2], par[3])

\* _get_operator_matrix(operation, par), for a known name: the observable
\* table overrides the operation table, and the entry None becomes
\* np.array(None)
_get_operator_matrix(operation, par) ==
    Only({IF operation \in Callable THEN Call(A, par)
          ELSE IF A = <<>> THEN NoneArray ELSE A
        : A \in {IF operation \in DOMAIN _observable_map THEN _observable_map[operation]
         ELSE _operation_map[operation]}})

\* np.reshape(A, [2] * len(wires) * 2) raises unless A has 4^k entries,
\* k = len(wires): a 2^k x 2^k matrix, or the array without axes for k = 0
ReshapeOk(A, wires) ==
    IF A = NoneArray THEN Len(wires) = 0 ELSE Len(A) = Pow2(Len(wires))

\* ------------------------------------------------------------ the device
VARIABLES
    heap,          \* the tensornetwork objects
    num_wires,     \* Device.num_wires
    shots,         \* Device.shots
    _nodes,        \* self._nodes: node identities
    _edges,        \* self._edges: edge identities
    _state_node,   \* self._state_node: a node identity
    _free_edges,   \* self._free_edges: edge identities, one per wire
    last,          \* the last call: [op, name, wires, par, ok, prior], prior the
                   \* number of calls made since the reset before it
    ret,           \* what the last call returned, as a sequence (<<>>: nothing)
    ev_log,        \* one record per ev call made by the last call
    choice,        \* the arguments of the last call's np.random.choice
    nops,          \* calls since the last reset
    history        \* the calls since the last reset: "gates" (gate applies that
                   \* returned), "measured" (such applies, then measurements
                   \* that returned), "other"

vars == <<heap, num_wires, shots, _nodes, _edges, _state_node, _free_edges,
          last, ret, ev_log, choice, nops, history>>

\* the device fields a handler works on; ok turns FALSE when it raises
Dev == [h |-> heap, nodes |-> _nodes, edges |-> _edges,
        state_node |-> _state_node, free_edges |-> _free_edges, ok |-> TRUE]

Raise(d) == [d EXCEPT !.ok = FALSE]

AllWires(n) == [i \in 1..n |-> i - 1]

\* _create_basis_state(state, wires): zeros of shape [2] * len(wires), then
\* state_node[tuple(state)] = 1, which sets every entry whose leading
\* indices are state
_create_basis_state(state, wires) ==
    [k \in 1..Pow2(Len(wires)) |->
        IF \A j \in 1..Len(state) : Bit(k - 1, Len(wires), j - 1) = state[j]
        THEN COne ELSE CZero]

\* the assignment of line 126 raises IndexError when state has more
\* entries than the array has axes
CreateBasisStateOk(state, wires) == Len(state) <= Len(wires)

\* the node _add_node returns: the one it appended to _nodes last
LastNode(d) == d.nodes[Len(d.nodes)]

\* _add_node(A, wires, name): a tn.Node is renamed and registered as it is,
\* anything else is wrapped in a new node
_add_node(d, isNode, A, wires, name) ==
    IF isNode
    THEN [d EXCEPT !.h.nodes[A].name = <<name, wires>>, !.nodes = Append(@, A)]
    ELSE [d EXCEPT !.h = TnNode(d.h, A, <<name, wires>>),
                   !.nodes = Append(@, NewNodeId(d.h))]

\* s[i] of a Python list of length len: i counts from the end when it is
\* negative, and the access raises IndexError out of -len .. len - 1
PyIndexOk(len, i) == -len <= i /\ i < len
PyIndex(len, i) == IF i < 0 THEN i + len ELSE i

\* node[idx]: the Edge on axis idx of the node
NodeEdge(h, node, idx) ==
    h.nodes[node].edges[PyIndex(Len(h.nodes[node].edges), idx) + 1]

\* _add_edge(node1, idx1, node2, idx2)
_add_edge(d, node1, idx1, node2, idx2) ==
    IF ~d.ok THEN d
    ELSE IF \/ ~PyIndexOk(Len(d.h.nodes[node1].edges), idx1)
            \/ ~PyIndexOk(Len(d.h.nodes[node2].edges), idx2)
    THEN Raise(d)
    ELSE Only({Only({IF ~TnConnectOk(d.h, e1, e2) THEN Raise(d)
            ELSE [d EXCEPT !.h = TnConnect(d.h, e1, e2),
                           !.edges = Append(@, Len(d.h.edges) + 1)]
             : e2 \in {NodeEdge(d.h, node2, idx2)}})
        : e1 \in {NodeEdge(d.h, node1, idx1)}})

\* reset() without line 378: the free-edge table is not rebuilt
resetWithoutTable(n) ==
    Only({Only({[d EXCEPT !.state_node = LastNode(d)]
        : d \in {_add_node([h |-> EmptyHeap, nodes |-> <<>>, edges |-> <<>>,
                    state_node |-> NoNode, free_edges |-> <<>>, ok |-> TRUE],
                   FALSE, state, AllWires(n), "AllZeroState")}})
        : state \in {_create_basis_state([i \in 1..n |-> 0], AllWires(n))}})

\* reset(): nothing refers to the earlier nodes and edges any more, so the
\* heap holds the new state node alone
reset(n) ==
    Only({Only({[d EXCEPT !.state_node = LastNode(d),
                  !.free_edges = d.h.nodes[LastNode(d)].edges]
        : d \in {_add_node([h |-> EmptyHeap, nodes |-> <<>>, edges |-> <<>>,
                    state_node |-> NoNode, free_edges |-> <<>>, ok |-> TRUE],
                   FALSE, state, AllWires(n), "AllZeroState")}})
        : state \in {_create_basis_state([i \in 1..n |-> 0], AllWires(n))}})

\* the operations apply handles as state preparations
StatePreparations == {"QubitStateVector", "BasisState"}

\* the wires argument of apply: None, or the list ws
NoneWires == [none |-> TRUE, list |-> <<>>]
ListWires(ws) == [none |-> FALSE, list |-> ws]

\* the test of lines 180 and 195 comparing the number of wires only
WiresRejectedByLength(wires, n) ==
    ~wires.none /\ wires.list # <<>> /\ Len(wires.list) # n

\* "wires is not None and wires != [] and list(wires) != list(range(num_wires))"
WiresRejected(wires, n) ==
    ~wires.none /\ wires.list # <<>> /\ wires.list # AllWires(n)

\* apply, lines 209-211: one pass of the loop per position idx (0-based)
RECURSIVE ApplyWires(_, _, _, _)
ApplyWires(d, op_node, wires, idx) ==
    IF idx >= Len(wires) \/ ~d.ok THEN d
    ELSE Only({Only({Only({ApplyWires(d2, op_node, wires, idx + 1)
             : d2 \in {IF ~d1.ok THEN d1
              ELSE IF ~PyIndexOk(Len(d1.free_edges), w) THEN Raise(d1)
              ELSE [d1 EXCEPT !.free_edges[PyIndex(Len(d1.free_edges), w) + 1] =
                                  NodeEdge(d1.h, op_node, idx)]}})
             : d1 \in {_add_edge(d, op_node, Len(wires) + idx, d.state_node, w)}})
        : w \in {wires[idx + 1]}})

\* apply, lines 174-186: par[0] raises for an empty par; the tensor is
\* replaced before the wires are looked at
ApplyQubitStateVector(d, n, wires, par) ==
    IF Len(par) = 0 THEN Raise(d)
    ELSE LET state == par[1]
         IN IF ~(state.ndim = 1 /\ state.shape0 = Pow2(n)) THEN Raise(d)
            ELSE LET d1 == [d EXCEPT !.h.nodes[d.state_node].tensor = state.data]
                 IN IF WiresRejected(wires, n) THEN Raise(d1) ELSE d1

\* apply, lines 187-203: par[0] raises for an empty par, and
\* _create_basis_state raises for wires = None (len(None)) and for a bit
\* array longer than the wires
ApplyBasisState(d, n, wires, par) ==
    IF Len(par) = 0 THEN Raise(d)
    ELSE LET len == Len(par[1])
         IN IF len = 0 \/ len > n \/ ~(Range(par[1]) \subseteq {0, 1}) THEN Raise(d)
            ELSE IF WiresRejected(wires, n) THEN Raise(d)
            ELSE IF wires.none THEN Raise(d)
            ELSE IF ~CreateBasisStateOk(par[1], wires.list) THEN Raise(d)
            ELSE [d EXCEPT !.h.nodes[d.state_node].tensor =
                               _create_basis_state(par[1], wires.list)]

\* apply, lines 205-215, with contract_between called without
\* output_edge_order
ApplyGateUnordered(d, operation, wires, par) ==
    IF ~KnownName(operation) \/ ~ParOk(operation, par) THEN Raise(d)
    ELSE IF wires.none THEN Raise(d)
    ELSE IF ~ReshapeOk(_get_operator_matrix(operation, par), wires.list) THEN Raise(d)
    ELSE Only({Only({Only({Only({IF ~d2.ok THEN d2
            ELSE Only({IF ~c.ok THEN Raise([d2 EXCEPT !.h = c.h])
                    ELSE [d2 EXCEPT !.h = c.h, !.state_node = c.node]
                : c \in {ContractBetween(d2.h, op_node, d2.state_node, <<>>)}})
             : d2 \in {ApplyWires(d1, op_node, wires.list, 0)}})
             : op_node \in {LastNode(d1)}})
             : d1 \in {_add_node(d, FALSE, A, wires.list, operation)}})
        : A \in {FlattenMatrix(_get_operator_matrix(operation, par))}})

\* apply, lines 205-215: the matrix is looked up first, then len(wires)
\* raises for wires = None
ApplyGate(d, operation, wires, par) ==
    IF ~KnownName(operation) \/ ~ParOk(operation, par) THEN Raise(d)
    ELSE IF wires.none THEN Raise(d)
    ELSE IF ~ReshapeOk(_get_operator_matrix(operation, par), wires.list) THEN Raise(d)
    ELSE Only({Only({Only({Only({IF ~d2.ok THEN d2
            ELSE Only({IF ~c.ok THEN Raise([d2 EXCEPT !.h = c.h])
                    ELSE [d2 EXCEPT !.h = c.h, !.state_node = c.node]
                : c \in {ContractBetween(d2.h, op_node, d2.state_node, d2.free_edges)}})
             : d2 \in {ApplyWires(d1, op_node, wires.list, 0)}})
             : op_node \in {LastNode(d1)}})
             : d1 \in {_add_node(d, FALSE, A, wires.list, operation)}})
        : A \in {FlattenMatrix(_get_operator_matrix(operation, par))}})

\* apply(operation, wires, par)
apply(d, n, operation, wires, par) ==
    IF operation = "QubitStateVector" THEN ApplyQubitStateVector(d, n, wires, par)
    ELSE IF operation = "BasisState" THEN ApplyBasisState(d, n, wires, par)
    ELSE ApplyGate(d, operation, wires, par)

\* ev, lines 333-337: the legs of one observable, position idx (0-based)
RECURSIVE EvWireObservable(_, _, _, _, _, _)
EvWireObservable(d, obs_node, obs_wires, ket, bra, idx) ==
    IF idx >= Len(obs_wires) \/ ~d.ok THEN d
    ELSE Only({Only({Only({EvWireObservable(d2, obs_node, obs_wires, ket, bra, idx + 1)
             : d2 \in {_add_edge(d1, bra, w, obs_node, idx)}})
             : d1 \in {_add_edge(d, obs_node, Len(obs_wires) + idx, ket, w)}})
        : w \in {obs_wires[idx + 1]}})

\* ev, lines 331-337: every observable, from the i-th on
RECURSIVE EvWireObservables(_, _, _, _, _, _)
EvWireObservables(d, obs_nodes, wires, ket, bra, i) ==
    IF i > Len(obs_nodes) \/ ~d.ok THEN d
    ELSE Only({EvWireObservables(d1, obs_nodes, wires, ket, bra, i + 1)
        : d1 \in {EvWireObservable(d, obs_nodes[i], wires[i], ket, bra, 0)}})

\* ev, lines 338-339: the wires no observable covers, in increasing order
RECURSIVE EvWireUnmeasured(_, _, _, _, _)
EvWireUnmeasured(d, rest, ket, bra, i) ==
    IF i > Len(rest) \/ ~d.ok THEN d
    ELSE Only({EvWireUnmeasured(d1, rest, ket, bra, i + 1)
        : d1 \in {_add_edge(d, bra, rest[i], ket, rest[i])}})

\* ev, lines 343-345: c is [h, ok, node], node being contracted_ket
RECURSIVE EvContract(_, _, _)
EvContract(c, obs_nodes, i) ==
    IF i > Len(obs_nodes) \/ ~c.ok THEN c
    ELSE Only({EvContract(c1, obs_nodes, i + 1)
        : c1 \in {ContractBetween(c.h, obs_nodes[i], c.node, <<>>)}})

\* the wires of all observables: meas_wires
RECURSIVE MeasWires(_, _)
MeasWires(wires, i) ==
    IF i > Len(wires) THEN {} ELSE Range(wires[i]) \cup MeasWires(wires, i + 1)

\* for each leg of node n, what it is connected to: <<node, axis>>, and
\* <<NoNode, NoAxis>> for a dangling leg
Legs(h, n) ==
    [a \in 1..Len(h.nodes[n].edges) |->
        LET e == h.edges[h.nodes[n].edges[a]]
        IN IF e.node2 = NoNode THEN <<NoNode, NoAxis>>
           ELSE IF e.node1 = n /\ e.axis1 = a - 1 THEN <<e.node2, e.axis2>>
           ELSE <<e.node1, e.axis1>>]

\* Natural numbers of any size, for the comparison with the tolerance: the
\* sequence of the digits in base 10000, the least significant first and
\* the most significant other than 0; the empty sequence is 0
RECURSIVE BigOf(_)
BigOf(n) == IF n = 0 THEN <<>> ELSE <<n % 10000>> \o BigOf(n \div 10000)

\* digit i of a
Limb(a, i) == IF i <= Len(a) THEN a[i] ELSE 0

\* the digits of a + b from digit i on, with carry c
RECURSIVE BigAddFrom(_, _, _, _)
BigAddFrom(a, b, i, c) ==
    IF i > Len(a) /\ i > Len(b) THEN (IF c = 0 THEN <<>> ELSE <<c>>)
    ELSE <<(Limb(a, i) + Limb(b, i) + c) % 10000>>
         \o BigAddFrom(a, b, i + 1, (Limb(a, i) + Limb(b, i) + c) \div 10000)

\* the digits of a - b (a >= b) from digit i on, with borrow c
RECURSIVE BigSubFrom(_, _, _, _)
BigSubFrom(a, b, i, c) ==
    IF i > Len(a) THEN <<>>
    ELSE Only({IF rest = <<>> /\ Limb(a, i) - Limb(b, i) - c = 0 THEN <<>>
               ELSE <<(Limb(a, i) - Limb(b, i) - c + 10000) % 10000>> \o rest
        : rest \in {BigSubFrom(a, b, i + 1,
                                IF Limb(a, i) - Limb(b, i) - c < 0 THEN 1 ELSE 0)}})

\* the digits of a * m (0 < m < 10000) from digit i on, with carry c
RECURSIVE BigMulSmall(_, _, _, _)
BigMulSmall(a, m, i, c) ==
    IF i > Len(a) THEN (IF c = 0 THEN <<>> ELSE <<c>>)
    ELSE <<(a[i] * m + c) % 10000>> \o BigMulSmall(a, m, i + 1, (a[i] * m + c) \div 10000)

\* a times the digits of b from digit j on; a * b is BigMulFrom(a, b, 1)
RECURSIVE BigMulFrom(_, _, _)
BigMulFrom(a, b, j) ==
    IF j > Len(b) \/ a = <<>> THEN <<>>
    ELSE Only({BigAddFrom(IF b[j] = 0 THEN <<>> ELSE BigMulSmall(a, b[j], 1, 0),
                          IF rest = <<>> THEN <<>> ELSE <<0>> \o rest, 1, 0)
        : rest \in {BigMulFrom(a, b, j + 1)}})

\* base to the power e, for 0 < base < 10000, by the square of base to
\* the power e \div 2
RECURSIVE BigPow(_, _)
BigPow(base, e) ==
    IF e <= 0 THEN <<1>>
    ELSE Only({IF e % 2 = 0 THEN BigMulFrom(h, h, 1)
               ELSE BigMulSmall(BigMulFrom(h, h, 1), base, 1, 0)
        : h \in {BigPow(base, e \div 2)}})

\* 1, 0 or -1 as a is greater than, equal to or less than b, by their
\* digits from digit i down; BigCmp(a, b, Len(a) + Len(b)) compares a and b
RECURSIVE BigCmp(_, _, _)
BigCmp(a, b, i) ==
    IF i = 0 THEN 0
    ELSE IF Limb(a, i) > Limb(b, i) THEN 1
    ELSE IF Limb(a, i) < Limb(b, i) THEN -1
    ELSE BigCmp(a, b, i - 1)

\* integers of any size, a sign and an absolute value: n * b, for an
\* integer n and a natural number b
SignedTimes(n, b) ==
    [sign |-> IF n < 0 THEN -1 ELSE IF n > 0 /\ b # <<>> THEN 1 ELSE 0,
     mag |-> BigMulFrom(BigOf(Abs(n)), b, 1)]

\* s - b, for a natural number b
SignedSub(s, b) ==
    Only({Only({IF x.sign < 0 THEN [sign |-> -1, mag |-> BigAddFrom(x.mag, y, 1, 0)]
        ELSE IF cmp > 0 THEN [sign |-> 1, mag |-> BigSubFrom(x.mag, y, 1, 0)]
        ELSE IF cmp < 0 THEN [sign |-> -1, mag |-> BigSubFrom(y, x.mag, 1, 0)]
        ELSE [sign |-> 0, mag |-> <<>>]
        : cmp \in {BigCmp(x.mag, y, Len(x.mag) + Len(y))}})
        : x \in {s}, y \in {b}})

\* the sign of A + B sqrt(2): that of A and B when they agree, and else
\* the one of larger square among A and B sqrt(2)
SignRoot2(A, B) ==
    Only({IF x.sign >= 0 /\ y.sign >= 0 THEN (IF x.sign = 0 /\ y.sign = 0 THEN 0 ELSE 1)
        ELSE IF x.sign <= 0 /\ y.sign <= 0 THEN -1
        ELSE Only({x.sign * BigCmp(x2, y2, Len(x2) + Len(y2))
            : x2 \in {BigMulFrom(x.mag, x.mag, 1)},
              y2 \in {BigMulFrom(<<2>>, BigMulFrom(y.mag, y.mag, 1), 1)}})
        : x \in {A}, y \in {B}})

\* 1 / tolerance = 10^ToleranceExp
InverseTolerance == BigPow(10, ToleranceExp)

\* abs(imag(expval)) > tolerance, for the imaginary part im, the real
\* number (im[1] + im[2] sqrt(2)) / 2^im[5]: with sg the sign of im,
\* sg * (im[1] + im[2] sqrt(2)) / tolerance - 2^im[5] > 0
ExceedsTolerance(im) ==
    \E sg \in {SignRoot2(SignedTimes(im[1], <<1>>), SignedTimes(im[2], <<1>>))} :
        /\ sg # 0
        /\ SignRoot2(SignedSub(SignedTimes(sg * im[1], InverseTolerance), BigPow(2, im[5])),
                     SignedTimes(sg * im[2], InverseTolerance)) > 0

\* what ev leaves in its log: the tensor and the legs of the ket and the
\* tensors and wires of the observables as ev finds them (call), the
\* sandwich as wired, before the contraction (wired), the contracted
\* scalar, its rank, and whether the warning was emitted
EvCall(d, ket, obs_nodes, wires) ==
    [ket_tensor |-> d.h.nodes[ket].tensor, ket_legs |-> Legs(d.h, ket),
     obs_tensors |-> [i \in 1..Len(obs_nodes) |-> d.h.nodes[obs_nodes[i]].tensor],
     wires |-> wires]

Wired(h, ket, bra, obs_nodes) ==
    [ket |-> ket, bra |-> bra, obs |-> obs_nodes,
     ket_legs |-> Legs(h, ket), bra_legs |-> Legs(h, bra),
     obs_legs |-> [i \in 1..Len(obs_nodes) |-> Legs(h, obs_nodes[i])]]

NotWired == [ket |-> NoNode, bra |-> NoNode, obs |-> <<>>,
             ket_legs |-> <<>>, bra_legs |-> <<>>, obs_legs |-> <<>>]

\* ev, lines 343-352, raising where line 348 warns as well
EvFinishRaising(d, ket, bra, obs_nodes, call) ==
    Only({Only({Only({IF ~c2.ok
        THEN [d |-> Raise([d EXCEPT !.h = c2.h]), value |-> CZero,
              log |-> [call |-> call, ok |-> FALSE, wired |-> wired, rank |-> -1,
                       expval |-> CZero, warned |-> FALSE]]
        ELSE Only({IF Len(expval) > 1
                 THEN [d |-> Raise([d EXCEPT !.h = c2.h]), value |-> CZero,
                       log |-> [call |-> call, ok |-> FALSE, wired |-> wired,
                                rank |-> Rank(expval), expval |-> CZero,
                                warned |-> FALSE]]
                 ELSE [d |-> IF ExceedsTolerance(ImagPart(expval[1]))
                             THEN Raise([d EXCEPT !.h = c2.h]) ELSE [d EXCEPT !.h = c2.h],
                       value |-> RealPart(expval[1]),
                       log |-> [call |-> call, ok |-> TRUE, wired |-> wired,
                                rank |-> Rank(expval), expval |-> expval[1],
                                warned |-> ExceedsTolerance(ImagPart(expval[1]))]]
            : expval \in {c2.h.nodes[c2.node].tensor}})
        : c2 \in {IF c1.ok THEN ContractBetween(c1.h, bra, c1.node, <<>>) ELSE c1}})
        : c1 \in {EvContract([h |-> d.h, ok |-> TRUE, node |-> ket], obs_nodes, 1)}})
        : wired \in {Wired(d.h, ket, bra, obs_nodes)}})

\* ev, lines 343-352: contraction, tolerance check and result.  The test of
\* line 347 raises (the truth value of an array is ambiguous) when the
\* contraction leaves more than one entry
EvFinish(d, ket, bra, obs_nodes, call) ==
    Only({Only({Only({IF ~c2.ok
        THEN [d |-> Raise([d EXCEPT !.h = c2.h]), value |-> CZero,
              log |-> [call |-> call, ok |-> FALSE, wired |-> wired, rank |-> -1,
                       expval |-> CZero, warned |-> FALSE]]
        ELSE Only({IF Len(expval) > 1
                 THEN [d |-> Raise([d EXCEPT !.h = c2.h]), value |-> CZero,
                       log |-> [call |-> call, ok |-> FALSE, wired |-> wired,
                                rank |-> Rank(expval), expval |-> CZero,
                                warned |-> FALSE]]
                 ELSE [d |-> [d EXCEPT !.h = c2.h], value |-> RealPart(expval[1]),
                       log |-> [call |-> call, ok |-> TRUE, wired |-> wired,
                                rank |-> Rank(expval), expval |-> expval[1],
                                warned |-> ExceedsTolerance(ImagPart(expval[1]))]]
            : expval \in {c2.h.nodes[c2.node].tensor}})
        : c2 \in {IF c1.ok THEN ContractBetween(c1.h, bra, c1.node, <<>>) ELSE c1}})
        : c1 \in {EvContract([h |-> d.h, ok |-> TRUE, node |-> ket], obs_nodes, 1)}})
        : wired \in {Wired(d.h, ket, bra, obs_nodes)}})

\* ev(obs_nodes, wires): [d, value, log]; d.ok is FALSE when ev raises and
\* value is what it returns; zip is the number of pairs of zip(obs_nodes,
\* wires)
ev(d, n, obs_nodes, wires) ==
    Only({Only({Only({Only({Only({Only({Only({Only({IF ~d2.ok
        THEN [d |-> d2, value |-> CZero,
              log |-> [call |-> EvCall(d, ket, obs_nodes, wires), ok |-> FALSE,
                       wired |-> NotWired, rank |-> -1, expval |-> CZero,
                       warned |-> FALSE]]
        ELSE EvFinish(d2, ket, bra, obs_nodes, EvCall(d, ket, obs_nodes, wires))
        : d2 \in {EvWireUnmeasured(d1, [i \in 1..Len(rest) |-> rest[i] - 1], ket, bra, 1)}})
        : rest \in {SelectIdx(LAMBDA i : (i - 1) \notin MeasWires(SubSeq(wires, 1, zip), 1), 1, n)}})
        : d1 \in {EvWireObservables(db, SubSeq(obs_nodes, 1, zip), SubSeq(wires, 1, zip),
                           ket, bra, 1)}})
        : zip \in {IF Len(obs_nodes) < Len(wires) THEN Len(obs_nodes) ELSE Len(wires)}})
        : bra \in {LastNode(db)}})
        : db \in {_add_node([dk EXCEPT !.h = TnConj(dk.h, ket)], TRUE, NewNodeId(dk.h),
                   AllWires(n), "Bra")}})
        : ket \in {LastNode(dk)}})
        : dk \in {_add_node(d, TRUE, d.state_node, AllWires(n), "Ket")}})

\* the last k nodes appended to _nodes
LastNodes(d, k) == SubSeq(d.nodes, Len(d.nodes) - k + 1, Len(d.nodes))

\* create_nodes_from_tensors(tensors, wires, observable_names), from the
\* i-th; zip stops at the end of its shortest argument
RECURSIVE create_nodes_from_tensors(_, _, _, _, _)
create_nodes_from_tensors(d, tensors, wires, observable_names, i) ==
    IF i > Len(tensors) \/ i > Len(wires) \/ i > Len(observable_names) THEN d
    ELSE create_nodes_from_tensors(
             _add_node(d, FALSE, tensors[i], wires[i], observable_names[i]),
             tensors, wires, observable_names, i + 1)

\* a call that raises before it has changed anything
Raised(d) == [d |-> Raise(d), ret |-> <<>>, log |-> <<>>]

\* lines 237, 249 and 264: the names of the first k observables resolve and
\* their functions take their parameters
MatricesOk(observable, par, k) ==
    \A i \in 1..k : KnownName(observable[i]) /\ ParOk(observable[i], par[i])

\* the matrices of the first k observables
Matrices(observable, par, k) ==
    [i \in 1..k |-> _get_operator_matrix(observable[i], par[i])]

\* expval(observable, wires, par), for lists: [d, ret, log].  The loop of
\* line 236 makes zip passes, as many as the shortest of the three lists has
\* entries
expval(d, n, observable, wires, par) ==
    Only({IF ~MatricesOk(observable, par, zip) THEN Raised(d)
        ELSE Only({IF \E i \in 1..zip : ~ReshapeOk(matrices[i], wires[i]) THEN Raised(d)
            ELSE Only({Only({Only({[d |-> r.d,
                     ret |-> IF r.d.ok THEN <<r.value>> ELSE <<>>, log |-> <<r.log>>]
                     : r \in {ev(d1, n, LastNodes(d1, zip), wires)}})
                     : d1 \in {create_nodes_from_tensors(d, tensors, wires, observable, 1)}})
                : tensors \in {[i \in 1..zip |-> FlattenMatrix(matrices[i])]}})
            : matrices \in {Matrices(observable, par, zip)}})
        : zip \in {Min(Len(observable), Min(Len(par), Len(wires)))}})

\* var, lines 251-252: the first zip matrices reshape to their wires and
\* have a square
SquaresOk(matrices, wires, zip) ==
    \A i \in 1..zip : ReshapeOk(matrices[i], wires[i]) /\ MatMulOk(matrices[i])

\* var, lines 251-255: the nodes of the observables, then of their squares,
\* one for each of the zip pairs of zip(matrices, wires)
VarNodes(d, observable, wires, matrices, zip) ==
    Only({Only({Only({Only({[d |-> d2, obs_nodes |-> LastNodes(d1, zip),
         obs_nodes_for_squares |-> LastNodes(d2, zip)]
        : d2 \in {create_nodes_from_tensors(d1, tensors_of_squared_matrices, wires,
                                            observable, 1)}})
        : d1 \in {create_nodes_from_tensors(d, tensors, wires, observable, 1)}})
        : tensors_of_squared_matrices \in
            {[i \in 1..zip |-> FlattenMatrix(MatMul(matrices[i], matrices[i]))]}})
        : tensors \in {[i \in 1..zip |-> FlattenMatrix(matrices[i])]}})

\* var returning ev(A squared) - ev(A), the square forgotten
varWithoutSquare(d, n, observable, wires, par) ==
    Only({IF ~MatricesOk(observable, par, k) THEN Raised(d)
        ELSE Only({Only({IF ~SquaresOk(matrices, wires, zip) THEN Raised(d)
            ELSE Only({Only({IF ~r1.d.ok
                    THEN [d |-> r1.d, ret |-> <<>>, log |-> <<r1.log>>]
                    ELSE Only({[d |-> r2.d,
                             ret |-> IF r2.d.ok
                                     THEN <<CSub(r1.value, r2.value)>>
                                     ELSE <<>>,
                             log |-> <<r1.log, r2.log>>]
                        : r2 \in {ev(r1.d, n, v.obs_nodes, wires)}})
                 : r1 \in {ev(v.d, n, v.obs_nodes_for_squares, wires)}})
                 : v \in {VarNodes(d, observable, wires, matrices, zip)}})
             : zip \in {Min(Len(matrices), Len(wires))}})
             : matrices \in {Matrices(observable, par, k)}})
        : k \in {Min(Len(observable), Len(par))}})

\* var(observable, wires, par), for lists: [d, ret, log]; line 249 makes k
\* matrices, as many as the shorter of observable and par has entries
var(d, n, observable, wires, par) ==
    Only({IF ~MatricesOk(observable, par, k) THEN Raised(d)
        ELSE Only({Only({IF ~SquaresOk(matrices, wires, zip) THEN Raised(d)
            ELSE Only({Only({IF ~r1.d.ok
                    THEN [d |-> r1.d, ret |-> <<>>, log |-> <<r1.log>>]
                    ELSE Only({[d |-> r2.d,
                             ret |-> IF r2.d.ok
                                     THEN <<CSub(r1.value, CMul(r2.value, r2.value))>>
                                     ELSE <<>>,
                             log |-> <<r1.log, r2.log>>]
                        : r2 \in {ev(r1.d, n, v.obs_nodes, wires)}})
                 : r1 \in {ev(v.d, n, v.obs_nodes_for_squares, wires)}})
                 : v \in {VarNodes(d, observable, wires, matrices, zip)}})
             : zip \in {Min(Len(matrices), Len(wires))}})
             : matrices \in {Matrices(observable, par, k)}})
        : k \in {Min(Len(observable), Len(par))}})

\* the matrix |k><k| of dimension m (k is 1-based)
BasisProjector(k, m) ==
    [i \in 1..m |-> [j \in 1..m |-> IF i = k /\ j = k THEN COne ELSE CZero]]

\* spectral_decomposition(A) raises (eigh) for an array without axes
DecompositionOk(A) == A # NoneArray

\* the square root of the real number x >= 0: with x = (p + q sqrt(2)) / 4^j
\* it is the number (u + v sqrt(2)) / 2^j >= 0 with u^2 + 2 v^2 = p and
\* 2 u v = q, when the ring holds one
RealSqrt(x) ==
    Only({Only({Only({
        CRed(CHOOSE r \in {<<u, v, 0, -v, k \div 2>> : u \in (-p)..p, v \in (-p)..p} :
                 /\ r[1] * r[1] + 2 * r[2] * r[2] = p
                 /\ 2 * r[1] * r[2] = q
                 /\ Sign(r) >= 0)
        : q \in {x[2] * Pow2(k - x[5])}})
        : p \in {x[1] * Pow2(k - x[5])}})
        : k \in {x[5] + (x[5] % 2)}})

\* 1 / x for the real number x = (p + q sqrt(2)) / 2^k with p^2 - 2 q^2 one
\* of 2^t and -2^t: (p - q sqrt(2)) 2^k / (p^2 - 2 q^2)
RealInv(x) ==
    Only({Only({
        CHOOSE r \in {CRed(<<sgn * x[1] * Pow2(x[5]), -sgn * x[2] * Pow2(x[5]), 0,
                             sgn * x[2] * Pow2(x[5]), Log2(Abs(nrm))>>)} :
            CMul(x, r) = COne
        : sgn \in {IF nrm < 0 THEN -1 ELSE 1}})
        : nrm \in {x[1] * x[1] - 2 * x[2] * x[2]}})

\* np.linalg.eigh(A) reads the lower triangle of A and takes the diagonal
\* as real: the Hermitian matrix it decomposes
LowerHermitian(A) ==
    [i \in 1..Len(A) |-> [j \in 1..Len(A) |->
        IF i > j THEN A[i][j] ELSE IF i < j THEN CConj(A[j][i]) ELSE RealPart(A[i][i])]]

\* L is a direct sum of 1 x 1 and 2 x 2 blocks along its diagonal
BlockDiagonal(L) ==
    /\ \A i, j \in 1..Len(L) : i > j + 1 => L[i][j] = CZero
    /\ \A i \in 2..(Len(L) - 1) : L[i][i - 1] = CZero \/ L[i + 1][i] = CZero

\* the eigenvalues <<rt1, rt2>> of the block <<<<a, conj(b)>>, <<b, c>>>>
\* (LAPACK dlaev2): rt1 is the one of larger absolute value, the larger one
\* when both have the same
BlockEigenvalues(a, b, c) ==
    Only({Only({IF Sign(sm) < 0 THEN <<CHalf(CSub(sm, rt)), CHalf(CAdd(sm, rt))>>
                ELSE <<CHalf(CAdd(sm, rt)), CHalf(CSub(sm, rt))>>
        : rt \in {RealSqrt(CAdd(CMul(CSub(a, c), CSub(a, c)),
                                CMul(CInt(4), CMul(b, CConj(b)))))}})
        : sm \in {CAdd(a, c)}})

\* the projector onto the eigenvector of eigenvalue rt of the block of L on
\* rows i and i + 1 whose other eigenvalue is other: (block - other) /
\* (rt - other), and 0 outside the block
BlockProjector(L, i, rt, other) ==
    Only({[r \in 1..Len(L) |-> [c \in 1..Len(L) |->
            IF {r, c} \subseteq {i, i + 1}
            THEN CMul(CSub(L[r][c], IF r = c THEN other ELSE CZero), inv)
            ELSE CZero]]
        : inv \in {RealInv(CSub(rt, other))}})

\* the eigenvalues with the projectors onto their eigenvectors in the order
\* in which the QL iteration (LAPACK zsteqr) finds them: along the diagonal,
\* the two of a 2 x 2 block as BlockEigenvalues gives them
Unsorted(L) ==
    [i \in 1..Len(L) |->
        IF i < Len(L) /\ L[i + 1][i] # CZero
        THEN Only({[value |-> rt[1], projector |-> BlockProjector(L, i, rt[1], rt[2])]
                 : rt \in {BlockEigenvalues(L[i][i], L[i + 1][i], L[i + 1][i + 1])}})
        ELSE IF i > 1 /\ L[i][i - 1] # CZero
        THEN Only({[value |-> rt[2], projector |-> BlockProjector(L, i - 1, rt[2], rt[1])]
                 : rt \in {BlockEigenvalues(L[i - 1][i - 1], L[i][i - 1], L[i][i])}})
        ELSE [value |-> L[i][i], projector |-> BasisProjector(i, Len(L))]]

\* the selection sort that ends zsteqr, from position i: the first of the
\* smallest values from i on changes places with the value at i
RECURSIVE SelectionSort(_, _)
SelectionSort(s, i) ==
    IF i >= Len(s) THEN s
    ELSE Only({SelectionSort([s EXCEPT ![i] = s[k], ![k] = s[i]], i + 1)
        : k \in {CHOOSE j \in i..Len(s) :
                   /\ \A l \in i..Len(s) : ~CLess(s[l].value, s[j].value)
                   /\ \A l \in i..(j - 1) : s[l].value # s[j].value}})

\* spectral_decomposition(A) of default_qubit: eigh(A), and for each
\* eigenvector v the projector np.outer(v, v.conj()); the eigenvalues come in
\* increasing order.  The model decomposes the matrices that eigh reads as a
\* direct sum of 1 x 1 and 2 x 2 blocks with eigenvalues in the ring (every
\* matrix of the tables, at the angles of the model); entries are exact, so
\* equal eigenvalues are equal in the sort.
spectral_decomposition(A) ==
    Only({[eigenvalues |-> [i \in 1..Len(sorted) |-> sorted[i].value],
           projectors |-> [i \in 1..Len(sorted) |-> sorted[i].projector]]
        : sorted \in {SelectionSort(Unsorted(L), 1)
                      : L \in {M \in {LowerHermitian(A)} : BlockDiagonal(M)}}})

\* itertools.product(*lists): tuples in lexicographic order, the last list
\* varying fastest
RECURSIVE product(_)
product(lists) ==
    IF Len(lists) = 0 THEN << <<>> >>
    ELSE LET first == lists[1]
             rest == product(Tail(lists))
         IN [k \in 1..(Len(first) * Len(rest)) |->
               <<first[((k - 1) \div Len(rest)) + 1]>> \o rest[((k - 1) % Len(rest)) + 1]]

\* np.sum in the place of np.prod
RECURSIVE sum(_)
sum(p) == IF Len(p) = 0 THEN CZero ELSE CAdd(p[1], sum(Tail(p)))

\* np.prod of a tuple of real numbers
RECURSIVE prod(_)
prod(p) == IF Len(p) = 0 THEN COne ELSE CMul(p[1], prod(Tail(p)))

\* sample, lines 285-289: the projectors of one tuple become nodes; the
\* reshape of line 287 raises when a projector does not have the size of
\* its wires
RECURSIVE SampleNodes(_, _, _)
SampleNodes(d, projs, i) ==
    IF i > Len(projs) \/ ~d.ok THEN d
    ELSE IF ~ReshapeOk(projs[i][1], projs[i][2]) THEN Raise(d)
    ELSE Only({SampleNodes(d1, projs, i + 1)
        : d1 \in {_add_node(d, FALSE, FlattenMatrix(projs[i][1]), projs[i][2],
                        "UnnamedNode")}})

\* sample, lines 282-291: r is [d, probs, log]; one ev per tuple, from the k-th
RECURSIVE SampleLoop(_, _, _, _)
SampleLoop(r, n, projector_tensor_products, k) ==
    IF k > Len(projector_tensor_products) \/ ~r.d.ok THEN r
    ELSE Only({Only({IF ~d1.ok THEN [r EXCEPT !.d = d1]
            ELSE Only({SampleLoop([d |-> e.d, probs |-> Append(r.probs, e.value),
                                log |-> Append(r.log, e.log)],
                               n, projector_tensor_products, k + 1)
                : e \in {ev(d1, n, LastNodes(d1, Len(projs)),
                         [i \in 1..Len(projs) |-> projs[i][2]])}})
             : d1 \in {SampleNodes(r.d, projs, 1)}})
        : projs \in {projector_tensor_products[k]}})

\* sample(observable, wires, par) up to the call of np.random.choice:
\* [d, outcomes, probs, log].  Line 264 makes k matrices, as many as the
\* shorter of observable and par has entries; line 267 cannot unpack the
\* decompositions when there is none, and line 272 needs wires[idx] for each
\* of them
sample(d, n, observable, wires, par) ==
    Only({IF ~MatricesOk(observable, par, k) \/ k = 0 \/ Len(wires) < k
        THEN [d |-> Raise(d), outcomes |-> <<>>, probs |-> <<>>, log |-> <<>>]
        ELSE IF \E i \in 1..k : ~DecompositionOk(Matrices(observable, par, k)[i])
        THEN [d |-> Raise(d), outcomes |-> <<>>, probs |-> <<>>, log |-> <<>>]
        ELSE Only({Only({Only({Only({Only({[d |-> r.d,
                 outcomes |-> [i \in 1..Len(joint_outcomes) |-> prod(joint_outcomes[i])],
                 probs |-> r.probs, log |-> r.log]
                 : r \in {SampleLoop([d |-> d, probs |-> <<>>, log |-> <<>>], n,
                             product(projectors_with_wires), 1)}})
                 : joint_outcomes \in {product(eigenvalues)}})
                 : projectors_with_wires \in {[idx \in 1..Len(decompositions) |->
                      [j \in 1..Len(decompositions[idx].projectors) |->
                          <<decompositions[idx].projectors[j], wires[idx]>>]]}})
                 : eigenvalues \in {[i \in 1..Len(decompositions) |->
                                       decompositions[i].eigenvalues]}})
            : decompositions \in {[i \in 1..k |->
                  spectral_decomposition(_get_operator_matrix(observable[i], par[i]))]}})
        : k \in {Min(Len(observable), Len(par))}})

\* np.random.choice(a, size, p=p) raises unless p is a distribution
ChoiceOk(p) ==
    /\ \A i \in 1..Len(p) : Sign(p[i]) >= 0
    /\ CSumTo(LAMBDA i : p[i], 1, Len(p)) = COne

\* np.random.choice(a, size, p=p): every array of size draws from the
\* entries of a that have positive probability
RandomChoice(a, size, p) ==
    {[k \in 1..size |-> a[draw[k]]] : draw \in [1..size -> {i \in 1..Len(a) : Sign(p[i]) > 0}]}

\* ------------------------------------------------------------ the inputs
\* gates: PauliX on the first and on the last wire, S on the last wire, CNOT
\* between the first and the last wire in both directions, Hadamard on the
\* first wire, SWAP of the first and the last wire, a rotation by pi/2 on
\* the last wire; on a device of one or two wires also CNOT on a repeated
\* wire and an unknown name; PauliX without wires on a device of one wire;
\* Toffoli on a device of three or more
GateCalls(n) ==
    {[name |-> "PauliX", wires |-> ListWires(<<w>>), par |-> <<>>] : w \in {0, n - 1}}
    \cup {[name |-> "CNOT", wires |-> ListWires(ws), par |-> <<>>] :
            ws \in {<<0, n - 1>>, <<n - 1, 0>>}}
    \cup (IF n > 2 THEN {}
          ELSE {[name |-> "CNOT", wires |-> ListWires(<<0, 0>>), par |-> <<>>],
                [name |-> "Foo", wires |-> ListWires(<<0>>), par |-> <<>>]})
    \cup (IF n > 1 THEN {}
          ELSE {[name |-> "PauliX", wires |-> NoneWires, par |-> <<>>]})
    \cup {[name |-> "S", wires |-> ListWires(<<n - 1>>), par |-> <<>>],
          [name |-> "Hadamard", wires |-> ListWires(<<0>>), par |-> <<>>],
          [name |-> "SWAP", wires |-> ListWires(<<0, n - 1>>), par |-> <<>>],
          [name |-> "RY", wires |-> ListWires(<<n - 1>>), par |-> <<1>>]}
    \cup (IF n < 3 THEN {}
          ELSE {[name |-> "Toffoli", wires |-> ListWires(<<0, 1, n - 1>>), par |-> <<>>]})

\* wire arguments of a state preparation other than the full range: None,
\* the empty list, the reversed range and, on a device of one or two wires,
\* the list [-1], the first wire alone, one wire more than the device has
\* (on a device of one wire the reversed range and the first wire alone
\* are the full range, and are left out)
OtherPrepWires(n) ==
    ({NoneWires, ListWires(<<>>), ListWires([i \in 1..n |-> n - i])}
     \cup (IF n > 2 THEN {}
           ELSE {ListWires(<<-1>>), ListWires(<<0>>), ListWires(AllWires(n + 1))}))
    \ {ListWires(AllWires(n))}

\* bit arrays: all ones and a short one, and on a device of one or two
\* wires a long and a non-binary one
BasisPars(n) ==
    {[i \in 1..n |-> 1], <<1>>}
    \cup (IF n > 2 THEN {} ELSE {<<2>>, [i \in 1..(n + 1) |-> 1]})

\* a one-dimensional array holding data
Vector(data) == [ndim |-> 1, shape0 |-> Len(data), data |-> data]

\* the last basis vector
LastBasisVector(n) == Vector([k \in 1..Pow2(n) |-> IF k = Pow2(n) THEN COne ELSE CZero])

\* state vectors: the last basis vector, a phase times a basis vector, and
\* on a device of one or two wires arrays of a wrong length or shape
StateVectors(n) ==
    {LastBasisVector(n),
     Vector([k \in 1..Pow2(n) |-> IF k = 2 THEN CI ELSE CZero])}
    \cup (IF n > 2 THEN {}
          ELSE {Vector([k \in 1..(Pow2(n) - 1) |-> COne]),
                [ndim |-> 2, shape0 |-> Pow2(n), data |-> [k \in 1..Pow2(n) |-> COne]]})

\* every array on the full range of wires, on each other wire argument an
\* array that the full range accepts, and (on a device of one wire) no
\* array at all
PrepCalls(n) ==
    {[name |-> "BasisState", wires |-> ListWires(AllWires(n)), par |-> <<b>>] :
        b \in BasisPars(n)}
    \cup {[name |-> "BasisState", wires |-> ws, par |-> <<[i \in 1..n |-> 1]>>] :
            ws \in OtherPrepWires(n)}
    \cup {[name |-> "QubitStateVector", wires |-> ListWires(AllWires(n)), par |-> <<v>>] :
            v \in StateVectors(n)}
    \cup {[name |-> "QubitStateVector", wires |-> ws, par |-> <<LastBasisVector(n)>>] :
            ws \in OtherPrepWires(n)}
    \cup (IF n > 1 THEN {}
          ELSE {[name |-> prep, wires |-> ListWires(AllWires(n)), par |-> <<>>] :
                  prep \in StatePreparations})

\* a Hermitian matrix that is not diagonal
HermitianPar == <<<<CInt(2), CNeg(CI)>>, <<CI, CZero>>>>

\* observables of expval: PauliZ on the first and on the last wire,
\* Hadamard, a Hermitian matrix, two on different wires, one on two wires;
\* on devices of at most two wires also one that is not Hermitian, two on
\* the same wire, a matrix that hermitian rejects, an unknown name, PauliZ
\* without an entry of par and the name of a state preparation on no wire
ObservableCalls(n) ==
    {[observable |-> <<"PauliZ">>, wires |-> << <<w>> >>, par |-> << <<>> >>] :
        w \in {0, n - 1}}
    \cup {[observable |-> <<"Hadamard">>, wires |-> << <<0>> >>, par |-> << <<>> >>],
          [observable |-> <<"Hermitian">>, wires |-> << <<0>> >>,
           par |-> << <<HermitianPar>> >>]}
    \cup (IF n > 2 THEN {}
          ELSE {[observable |-> <<"S">>, wires |-> << <<n - 1>> >>, par |-> << <<>> >>],
                [observable |-> <<"PauliZ", "PauliZ">>, wires |-> << <<0>>, <<0>> >>,
                 par |-> << <<>>, <<>> >>],
                [observable |-> <<"Hermitian">>, wires |-> << <<0>> >>,
                 par |-> << <<S>> >>],
                [observable |-> <<"Foo">>, wires |-> << <<0>> >>, par |-> << <<>> >>],
                [observable |-> <<"PauliZ">>, wires |-> << <<0>> >>, par |-> <<>>],
                [observable |-> <<"BasisState">>, wires |-> << <<>> >>,
                 par |-> << <<>> >>]})
    \cup (IF n < 2 THEN {}
          ELSE {[observable |-> <<"PauliZ", "PauliX">>, wires |-> << <<0>>, <<n - 1>> >>,
                 par |-> << <<>>, <<>> >>],
                [observable |-> <<"CNOT">>, wires |-> << <<n - 1, 0>> >>,
                 par |-> << <<>> >>]})

\* observables of var: a Hermitian matrix, two on different wires; on
\* devices of at most two wires also one that is not Hermitian and two on
\* the same wire
VarCalls(n) ==
    {[observable |-> <<"Hermitian">>, wires |-> << <<n - 1>> >>,
      par |-> << <<HermitianPar>> >>]}
    \cup (IF n > 2 THEN {}
          ELSE {[observable |-> <<"S">>, wires |-> << <<0>> >>, par |-> << <<>> >>],
                [observable |-> <<"PauliZ", "PauliZ">>, wires |-> << <<0>>, <<0>> >>,
                 par |-> << <<>>, <<>> >>]})
    \cup (IF n < 2 THEN {}
          ELSE {[observable |-> <<"PauliX", "Hermitian">>, wires |-> << <<n - 1>>, <<0>> >>,
                 par |-> << <<>>, <<HermitianPar>> >>]})

\* sampled observables: PauliZ on the last wire and one on two wires; on a
\* device of two wires also two on different wires (one of them a Hermitian
\* matrix that is not diagonal); on devices of at most two wires also no
\* observable at all
SampleCalls(n) ==
    {[observable |-> <<"PauliZ">>, wires |-> << <<n - 1>> >>, par |-> << <<>> >>]}
    \cup (IF n > 2 THEN {} ELSE {[observable |-> <<>>, wires |-> <<>>, par |-> <<>>]})
    \cup (IF n # 2 THEN {}
          ELSE {[observable |-> <<"PauliZ", "Hermitian">>, wires |-> << <<n - 1>>, <<0>> >>,
                 par |-> << <<>>, <<HermitianPar>> >>]})
    \cup (IF n < 2 THEN {}
          ELSE {[observable |-> <<"CNOT">>, wires |-> << <<0, n - 1>> >>,
                 par |-> << <<>> >>]})

\* direct calls of create_nodes_from_tensors: one tensor on the last wire,
\* and on devices of at most two wires a tensor of four axes on one wire,
\* two tensors with the wires of one, and a tensor whose only entry other
\* than 0 is (1 + i) / 2^34 (real and imaginary part 5.8e-11, below the
\* tolerance of ev)
NodeCalls(n) ==
    {[tensors |-> <<FlattenMatrix(Z)>>, wires |-> << <<n - 1>> >>,
      observable_names |-> <<"PauliZ">>]}
    \cup (IF n > 2 THEN {}
          ELSE {[tensors |-> <<FlattenMatrix(CNOT)>>, wires |-> << <<0>> >>,
                 observable_names |-> <<"CNOT">>],
                [tensors |-> <<FlattenMatrix(X), FlattenMatrix(H)>>, wires |-> << <<0>> >>,
                 observable_names |-> <<"PauliX", "Hadamard">>],
                [tensors |-> << <<<<1, 0, 1, 0, 34>>, CZero, CZero, CZero>> >>,
                 wires |-> << <<0>> >>, observable_names |-> <<"Tiny">>]})

\* direct calls of ev: without observables, and on the nodes that the call
\* before, one of create_nodes_from_tensors, returned, with the wires given
\* to that call
EvCalls ==
    {[obs_nodes |-> <<>>, wires |-> <<>>]}
    \cup (IF last.op = "create_nodes_from_tensors"
          THEN {[obs_nodes |-> ret, wires |-> last.wires]} ELSE {})

\* ----------------------------------------------------------- the actions
Commit(d) ==
    /\ heap' = d.h
    /\ _nodes' = d.nodes
    /\ _edges' = d.edges
    /\ _state_node' = d.state_node
    /\ _free_edges' = d.free_edges

Init ==
    /\ num_wires \in 1..MaxWires
    /\ shots = MaxShots
    /\ heap = reset(num_wires).h
    /\ _nodes = reset(num_wires).nodes
    /\ _edges = reset(num_wires).edges
    /\ _state_node = reset(num_wires).state_node
    /\ _free_edges = reset(num_wires).free_edges
    /\ last = [op |-> "init", name |-> "", wires |-> <<>>, par |-> <<>>, ok |-> TRUE,
            prior |-> 0]
    /\ ret = <<>>
    /\ ev_log = <<>>
    /\ choice = [a |-> <<>>, size |-> 0, p |-> <<>>]
    /\ nops = 0
    /\ history = "gates"

NoChoice == [a |-> <<>>, size |-> 0, p |-> <<>>]

\* the device that reset() leaves, for each number of wires
FreshDevice == [n \in 1..MaxWires |-> reset(n)]

\* reset()
Reset ==
    /\ \E d \in {FreshDevice[num_wires]} : Commit(d)
    /\ last' = [op |-> "reset", name |-> "", wires |-> <<>>, par |-> <<>>, ok |-> TRUE,
                prior |-> nops]
    /\ ret' = <<>>
    /\ ev_log' = <<>>
    /\ choice' = NoChoice
    /\ nops' = 0
    /\ history' = "gates"
    /\ UNCHANGED <<num_wires, shots>>

\* pre_apply()
PreApply ==
    /\ \E d \in {FreshDevice[num_wires]} : Commit(d)
    /\ last' = [op |-> "pre_apply", name |-> "", wires |-> <<>>, par |-> <<>>,
                ok |-> TRUE, prior |-> nops]
    /\ ret' = <<>>
    /\ ev_log' = <<>>
    /\ choice' = NoChoice
    /\ nops' = 0
    /\ history' = "gates"
    /\ UNCHANGED <<num_wires, shots>>

ApplyCall(c) ==
    /\ \E d \in {apply(Dev, num_wires, c.name, c.wires, c.par)} :
          /\ Commit(d)
          /\ last' = [op |-> "apply", name |-> c.name, wires |-> c.wires, par |-> c.par,
                      ok |-> d.ok, prior |-> nops]
          /\ history' = IF history = "gates" /\ d.ok /\ c.name \notin StatePreparations
                        THEN "gates" ELSE "other"
    /\ ret' = <<>>
    /\ ev_log' = <<>>
    /\ choice' = NoChoice
    /\ nops' = nops + 1
    /\ UNCHANGED <<num_wires, shots>>

ApplyGateStep ==
    /\ nops < MaxOps
    /\ \E c \in GateCalls(num_wires) : ApplyCall(c)

ApplyPrepStep ==
    /\ nops < MaxOps
    /\ \E c \in PrepCalls(num_wires) : ApplyCall(c)

ExpvalCall(c) ==
    /\ \E r \in {expval(Dev, num_wires, c.observable, c.wires, c.par)} :
          /\ Commit(r.d)
          /\ last' = [op |-> "expval", name |-> c.observable, wires |-> c.wires,
                      par |-> c.par, ok |-> r.d.ok, prior |-> nops]
          /\ ret' = r.ret
          /\ ev_log' = r.log
    /\ choice' = NoChoice
    /\ nops' = nops + 1
    /\ history' = IF history \in {"gates", "measured"} /\ last'.ok
                  THEN "measured" ELSE "other"
    /\ UNCHANGED <<num_wires, shots>>

Expval ==
    /\ nops < MaxOps
    /\ \E c \in ObservableCalls(num_wires) : ExpvalCall(c)

VarCall(c) ==
    /\ \E r \in {var(Dev, num_wires, c.observable, c.wires, c.par)} :
          /\ Commit(r.d)
          /\ last' = [op |-> "var", name |-> c.observable, wires |-> c.wires,
                      par |-> c.par, ok |-> r.d.ok, prior |-> nops]
          /\ ret' = r.ret
          /\ ev_log' = r.log
    /\ choice' = NoChoice
    /\ nops' = nops + 1
    /\ history' = IF history \in {"gates", "measured"} /\ last'.ok
                  THEN "measured" ELSE "other"
    /\ UNCHANGED <<num_wires, shots>>

Var ==
    /\ nops < MaxOps
    /\ \E c \in VarCalls(num_wires) : VarCall(c)

SampleCall(c) ==
    /\ \E r \in {sample(Dev, num_wires, c.observable, c.wires, c.par)} :
          /\ Commit(r.d)
          /\ ev_log' = r.log
          /\ IF r.d.ok /\ ChoiceOk(r.probs)
             THEN ret' \in RandomChoice(r.outcomes, shots, r.probs)
             ELSE ret' = <<>>
          /\ last' = [op |-> "sample", name |-> c.observable, wires |-> c.wires,
                      par |-> c.par, ok |-> r.d.ok /\ ChoiceOk(r.probs), prior |-> nops]
          /\ choice' = IF r.d.ok THEN [a |-> r.outcomes, size |-> shots, p |-> r.probs]
                       ELSE NoChoice
    /\ nops' = nops + 1
    /\ history' = IF history \in {"gates", "measured"} /\ last'.ok
                  THEN "measured" ELSE "other"
    /\ UNCHANGED <<num_wires, shots>>

Sample ==
    /\ nops < MaxOps
    /\ \E c \in SampleCalls(num_wires) : SampleCall(c)

\* create_nodes_from_tensors(tensors, wires, observable_names), called
\* directly: it returns the nodes it has added
CreateNodes ==
    /\ nops < MaxOps
    /\ \E c \in NodeCalls(num_wires) :
        /\ \E d \in {create_nodes_from_tensors(Dev, c.tensors, c.wires,
                                                c.observable_names, 1)} :
              /\ Commit(d)
              /\ ret' = LastNodes(d, Len(d.nodes) - Len(_nodes))
        /\ last' = [op |-> "create_nodes_from_tensors", name |-> c.observable_names,
                    wires |-> c.wires, par |-> c.tensors, ok |-> TRUE, prior |-> nops]
        /\ ev_log' = <<>>
        /\ choice' = NoChoice
        /\ nops' = nops + 1
        /\ history' = "other"
        /\ UNCHANGED <<num_wires, shots>>

\* ev(obs_nodes, wires), called directly
Ev ==
    /\ nops < MaxOps
    /\ \E c \in EvCalls :
        /\ \E r \in {ev(Dev, num_wires, c.obs_nodes, c.wires)} :
              /\ Commit(r.d)
              /\ last' = [op |-> "ev", name |-> c.obs_nodes, wires |-> c.wires,
                          par |-> <<>>, ok |-> r.d.ok, prior |-> nops]
              /\ ret' = IF r.d.ok THEN <<r.value>> ELSE <<>>
              /\ ev_log' = <<r.log>>
        /\ choice' = NoChoice
        /\ nops' = nops + 1
        /\ history' = "other"
        /\ UNCHANGED <<num_wires, shots>>

Next ==
    \/ Reset
    \/ PreApply
    \/ ApplyGateStep
    \/ ApplyPrepStep
    \/ CreateNodes
    \/ Ev
    \/ Expval
    \/ Var
    \/ Sample

Spec == Init /\ [][Next]_vars

\* ------------------------------------------------------------ the claims
StateNode == heap.nodes[_state_node]

Measurements == {"expval", "var", "sample"}

\* entry w of the free-edge table is leg w of the node that is the State
\* Register now, and that leg is connected to nothing
EntryIsStateLeg(w) ==
    /\ _free_edges[w + 1] = StateNode.edges[w + 1]
    /\ heap.edges[_free_edges[w + 1]].node1 = _state_node
    /\ heap.edges[_free_edges[w + 1]].axis1 = w
    /\ IsDangling(heap, _free_edges[w + 1])

\* C1: after reset() and any sequence of gate applies that returned, the
\* free-edge table has num_wires entries, the State Register has rank
\* num_wires, and entry w of the table is leg w of the current State
\* Register, so no entry is a leg of an operator node or of a consumed node
FreeEdgeTableInvariant ==
    history = "gates" =>
        /\ Len(_free_edges) = num_wires
        /\ Rank(StateNode.tensor) = num_wires
        /\ Len(StateNode.edges) = num_wires
        /\ \A w \in 0..(num_wires - 1) : EntryIsStateLeg(w)

\* two gates were applied since the reset, the last one on one of two wires
FreeEdgeTableWitness ==
    /\ history = "gates"
    /\ nops >= 2
    /\ num_wires >= 2
    /\ last.op = "apply"
    /\ Len(last.wires.list) < num_wires
    /\ _state_node # _nodes[1]

\* the step is a measurement call that returns
MeasurementReturns == nops' = nops + 1 /\ last'.op \in Measurements /\ last'.ok

\* a gate call that a freshly reset device accepts: a known gate, a matrix
\* of the size of its list of wires, distinct wires of the device
AcceptableGate(call) ==
    /\ call.op = "apply"
    /\ call.name \notin StatePreparations
    /\ KnownName(call.name)
    /\ ParOk(call.name, call.par)
    /\ ~call.wires.none
    /\ ReshapeOk(_get_operator_matrix(call.name, call.par), call.wires.list)
    /\ Range(call.wires.list) \subseteq 0..(num_wires - 1)
    /\ Cardinality(Range(call.wires.list)) = Len(call.wires.list)

\* C2: a measurement that returns leaves the State Register the same node
\* with the same tensor, all its legs connected to nothing and the
\* free-edge table unchanged, so that a second measurement sees the same
\* state and a gate applied after the measurement finds every wire's free
\* edge and returns
MeasurementReadOnly ==
    [][/\ MeasurementReturns =>
            /\ _state_node' = _state_node
            /\ heap'.nodes[_state_node'].tensor = StateNode.tensor
            /\ \A a \in 1..num_wires :
                   IsDangling(heap', heap'.nodes[_state_node'].edges[a])
            /\ _free_edges' = _free_edges
       /\ (history = "measured" /\ nops' = nops + 1 /\ AcceptableGate(last'))
             => last'.ok]_vars

\* the tensor of |0...0> on n wires: amplitude 1 at index (0,...,0)
AllZeroTensor(n) == [k \in 1..Pow2(n) |-> IF k = 1 THEN COne ELSE CZero]

\* C3: reset(), after any calls, after another reset() and through
\* pre_apply(), leaves the same state: the State Register holds amplitude 1
\* at index (0,...,0) and 0 elsewhere, the node bookkeeping holds the new
\* state node alone, the edge bookkeeping is empty, and the free-edge table
\* is the num_wires dangling legs of that node in wire order
ResetIdempotence ==
    last.op \in {"reset", "pre_apply"} =>
        /\ StateNode.tensor = AllZeroTensor(num_wires)
        /\ _nodes = <<_state_node>>
        /\ _edges = <<>>
        /\ Len(_free_edges) = num_wires
        /\ _free_edges = StateNode.edges
        /\ \A w \in 0..(num_wires - 1) : EntryIsStateLeg(w)
        /\ \A w1, w2 \in 1..num_wires : w1 # w2 => _free_edges[w1] # _free_edges[w2]

\* pre_apply() has reset a device on which calls had been made
ResetIdempotenceWitness ==
    /\ last.op = "pre_apply"
    /\ last.prior >= 1
    /\ num_wires >= 2
    /\ StateNode.tensor = AllZeroTensor(num_wires)

\* the last call was a state preparation of the given name
Prepared(name) == last.op = "apply" /\ last.name = name

\* the vector is one-dimensional of length 2^num_wires
ValidVector(state) == state.ndim = 1 /\ state.shape0 = Pow2(num_wires)

\* the bit array holds 0s and 1s and is not longer than num_wires
ValidBits(b) == Range(b) \subseteq {0, 1} /\ Len(b) <= num_wires

\* C4 as stated: a state preparation returns only when wires is
\* [0, ..., num_wires-1], QubitStateVector only for a one-dimensional vector
\* of length 2^num_wires, BasisState only for a bit array of 0s and 1s that
\* is not longer than num_wires
PreparationOnFullRangeOnly ==
    (last.op = "apply" /\ last.name \in StatePreparations /\ last.ok) =>
        /\ last.wires = ListWires(AllWires(num_wires))
        /\ Prepared("QubitStateVector") => ValidVector(last.par[1])
        /\ Prepared("BasisState") => ValidBits(last.par[1])

\* C4, amended: a state preparation returns only when wires is
\* [0, ..., num_wires-1] or, for QubitStateVector alone, None or the empty
\* list; QubitStateVector returns only for a one-dimensional vector of
\* length 2^num_wires, BasisState only for a bit array of 0s and 1s that is
\* not longer than num_wires
PreparationWiresChecked ==
    (last.op = "apply" /\ last.name \in StatePreparations /\ last.ok) =>
        /\ \/ last.wires = ListWires(AllWires(num_wires))
           \/ Prepared("QubitStateVector") /\ last.wires \in {NoneWires, ListWires(<<>>)}
        /\ Prepared("QubitStateVector") => ValidVector(last.par[1])
        /\ Prepared("BasisState") => ValidBits(last.par[1])

\* a preparation with valid data failed on the reversed range of wires
PreparationWiresWitness ==
    /\ last.op = "apply"
    /\ last.name \in StatePreparations
    /\ ~last.ok
    /\ num_wires >= 2
    /\ last.wires = ListWires([i \in 1..num_wires |-> num_wires - i])
    /\ Prepared("QubitStateVector") => ValidVector(last.par[1])
    /\ Prepared("BasisState") => ValidBits(last.par[1]) /\ Len(last.par[1]) = num_wires

\* the indices (1-based, flat) of the nonzero amplitudes of tensor t
NonZero(t) == {k \in 1..Len(t) : t[k] # CZero}

\* the flat index of the basis state whose leading bits are b, the other
\* wires being 0
BasisIndex(b, n) == 1 + SumTo(LAMBDA j : b[j] * Pow2(n - j), 1, Len(b))

\* C5: after apply('BasisState', ...) returns for a bit array b, the State
\* Register has rank num_wires, amplitude exactly 1 at the basis index given
\* by b and amplitude 0 at every other index: exactly one nonzero amplitude
BasisStatePrepared ==
    (Prepared("BasisState") /\ last.ok) =>
        /\ Rank(StateNode.tensor) = num_wires
        /\ Cardinality(NonZero(StateNode.tensor)) = 1
        /\ StateNode.tensor[BasisIndex(last.par[1], num_wires)] = COne

\* the index (1-based) into a matrix on the wires ws that the basis state
\* with flat index k (1-based) of n wires selects: the bits of k at ws
SubIndex(k, ws, n) ==
    1 + SumTo(LAMBDA j : Bit(k - 1, n, ws[j]) * Pow2(Len(ws) - j), 1, Len(ws))

RECURSIVE CProdTo(_, _, _)
CProdTo(f(_), lo, hi) == IF lo > hi THEN COne ELSE CMul(f(lo), CProdTo(f, lo + 1, hi))

\* <k| A_1 (x) ... (x) A_m |l> on n wires, A_i acting on wires[i] and the
\* identity on every other wire
Entry(matrices, wires, n, k, l) ==
    IF \E w \in (0..(n - 1)) \ MeasWires(wires, 1) : Bit(k - 1, n, w) # Bit(l - 1, n, w)
    THEN CZero
    ELSE CProdTo(LAMBDA i : matrices[i][SubIndex(k, wires[i], n)][SubIndex(l, wires[i], n)],
                 1, Len(matrices))

\* <psi| A_1 (x) ... (x) A_m |psi>, summed entry by entry
Expectation(psi, matrices, wires, n) ==
    CSumTo(LAMBDA k :
        CSumTo(LAMBDA l : CMul(CMul(CConj(psi[k]), Entry(matrices, wires, n, k, l)), psi[l]),
               1, Len(psi)),
        1, Len(psi))

\* the last measurement call gave one entry of par and one wire subset for
\* each observable
ListsMatch == Len(last.par) = Len(last.name) /\ Len(last.wires) = Len(last.name)

\* the matrices of the observables of the last measurement call
LastMatrices == [i \in 1..Len(last.name) |-> _get_operator_matrix(last.name[i], last.par[i])]

\* C6: var (given par and wires for each observable) returns ev(A squared)
\* minus the square of ev(A); both ev calls
\* wire their observables on the wires of the call and contract them against
\* the same State Register tensor, and the observables of the first call are
\* the squares A_i @ A_i, reshaped like A_i
VarianceFromTwoExpectations ==
    (last.op = "var" /\ last.ok /\ ListsMatch) =>
        /\ Len(ev_log) = 2
        /\ ev_log[1].call.ket_tensor = ev_log[2].call.ket_tensor
        /\ StateNode.tensor = ev_log[1].call.ket_tensor
        /\ ev_log[1].call.wires = last.wires
        /\ ev_log[2].call.wires = last.wires
        /\ ev_log[2].call.obs_tensors =
               [i \in 1..Len(last.name) |-> FlattenMatrix(LastMatrices[i])]
        /\ ev_log[1].call.obs_tensors =
               [i \in 1..Len(last.name) |->
                   FlattenMatrix(MatMul(LastMatrices[i], LastMatrices[i]))]
        /\ \E e \in {RealPart(Expectation(StateNode.tensor, LastMatrices, last.wires,
                                          num_wires))} :
               ret = <<CSub(RealPart(Expectation(StateNode.tensor,
                                                 [i \in 1..Len(last.name) |->
                                                     MatMul(LastMatrices[i], LastMatrices[i])],
                                                 last.wires, num_wires)),
                            CMul(e, e))>>

\* var returned for an observable whose expectation value is neither 0 nor
\* 1, on a register that an earlier call has changed
VarianceWitness ==
    /\ last.op = "var"
    /\ last.ok
    /\ ListsMatch
    /\ nops >= 2
    /\ StateNode.tensor # AllZeroTensor(num_wires)
    /\ Len(ev_log) = 2
    /\ RealPart(ev_log[2].expval) \notin {CZero, COne}

\* the wire subsets are pairwise disjoint and none repeats a wire
DisjointWires(wires) ==
    /\ \A i \in 1..Len(wires) : Cardinality(Range(wires[i])) = Len(wires[i])
    /\ \A i, j \in 1..Len(wires) : i # j => Range(wires[i]) \cap Range(wires[j]) = {}

Dangling == <<NoNode, NoAxis>>

\* wire w of the sandwich: through the observable that covers w, ket to its
\* input leg and bra to its output leg, or bra to ket when none covers w
WireConnected(wired, wires, w) ==
    IF w \in MeasWires(wires, 1)
    THEN \E i \in 1..Len(wires) : \E idx \in 0..(Len(wires[i]) - 1) :
            /\ wires[i][idx + 1] = w
            /\ wired.ket_legs[w + 1] = <<wired.obs[i], Len(wires[i]) + idx>>
            /\ wired.bra_legs[w + 1] = <<wired.obs[i], idx>>
            /\ wired.obs_legs[i][Len(wires[i]) + idx + 1] = <<wired.ket, w>>
            /\ wired.obs_legs[i][idx + 1] = <<wired.bra, w>>
    ELSE /\ wired.ket_legs[w + 1] = <<wired.bra, w>>
         /\ wired.bra_legs[w + 1] = <<wired.ket, w>>

\* every leg of ket, bra and the observables is connected
NoLegDangling(wired) ==
    /\ \A a \in 1..Len(wired.ket_legs) : wired.ket_legs[a] # Dangling
    /\ \A a \in 1..Len(wired.bra_legs) : wired.bra_legs[a] # Dangling
    /\ \A i \in 1..Len(wired.obs_legs) :
           \A a \in 1..Len(wired.obs_legs[i]) : wired.obs_legs[i][a] # Dangling

\* ev was given one wire subset for each observable node, none of them
\* empty, and every observable has an output and an input leg for each of
\* its wires
ObservablesOnWires(call) ==
    /\ Len(call.obs_tensors) = Len(call.wires)
    /\ \A i \in 1..Len(call.wires) :
           /\ Len(call.wires[i]) >= 1
           /\ Rank(call.obs_tensors[i]) = 2 * Len(call.wires[i])

\* C7: for observables on pairwise disjoint wire subsets (each observable
\* with its own subset and two legs for each of its wires), ev wires all
\* observables into one sandwich: ket leg w and bra leg w go to the input
\* and the output leg for w of the observable that covers w, and to each
\* other when none covers w; no leg of ket, bra or an observable is left
\* dangling, and contracting the observables into the ket and the ket
\* against the bra yields a scalar
EvWiringComplete ==
    \A i \in 1..Len(ev_log) :
        (/\ ObservablesOnWires(ev_log[i].call)
         /\ DisjointWires(ev_log[i].call.wires)) =>
            /\ ev_log[i].ok
            /\ Len(ev_log[i].wired.ket_legs) = num_wires
            /\ Len(ev_log[i].wired.bra_legs) = num_wires
            /\ ev_log[i].wired.ket # ev_log[i].wired.bra
            /\ Len(ev_log[i].wired.obs) = Len(ev_log[i].call.wires)
            /\ \A w \in 0..(num_wires - 1) :
                   WireConnected(ev_log[i].wired, ev_log[i].call.wires, w)
            /\ NoLegDangling(ev_log[i].wired)
            /\ ev_log[i].rank = 0

\* the decompositions of the observables of the last sample call
LastDecompositions ==
    [t \in 1..Len(last.name) |-> spectral_decomposition(LastMatrices[t])]

\* the sum of the matrices c[i] * Ms[i], all of dimension m
WeightedSum(c, Ms, m) ==
    [i \in 1..m |-> [j \in 1..m |->
        CSumTo(LAMBDA t : CMul(c[t], Ms[t][i][j]), 1, Len(Ms))]]

\* dec is a spectral decomposition of A: its projectors are orthogonal and
\* sum to the identity, and weighted by the eigenvalues they sum to A
Decomposes(dec, A) ==
    /\ Len(dec.eigenvalues) = Len(A)
    /\ Len(dec.projectors) = Len(A)
    /\ \A i, j \in 1..Len(A) :
           MatMul(dec.projectors[i], dec.projectors[j]) =
               (IF i = j THEN dec.projectors[i] ELSE Scaled(CZero, dec.projectors[i]))
    /\ WeightedSum([i \in 1..Len(A) |-> COne], dec.projectors, Len(A)) =
           IdentityMatrix(Len(A))
    /\ WeightedSum(dec.eigenvalues, dec.projectors, Len(A)) = A

\* how many tuples differ in the choices after position t only
RECURSIVE TuplesAfter(_, _)
TuplesAfter(dec, t) ==
    IF t >= Len(dec) THEN 1 ELSE Len(dec[t + 1].eigenvalues) * TuplesAfter(dec, t + 1)

\* the choice (1-based) that the i-th tuple of the Cartesian product makes
\* for observable t
ChoiceOf(dec, i, t) ==
    (((i - 1) \div TuplesAfter(dec, t)) % Len(dec[t].eigenvalues)) + 1

\* C8: sample (given par and wires for each observable) builds one joint
\* outcome per element of the Cartesian product of the observables'
\* (eigenvalue, projector) choices, which are a spectral decomposition of
\* each Hermitian observable; the i-th value is the product of the
\* eigenvalues chosen and its probability comes from one ev call on the
\* projectors chosen in the same tuple, each on the wires of its observable;
\* the result has length shots and holds outcome values only
SampleJointOutcomes ==
    (last.op = "sample" /\ choice # NoChoice /\ ListsMatch) =>
        \E dec \in {LastDecompositions} :
            /\ \A t \in 1..Len(last.name) :
                   hermitianOk(LastMatrices[t]) => Decomposes(dec[t], LastMatrices[t])
            /\ Len(choice.a) = TuplesAfter(dec, 0)
            /\ Len(choice.p) = Len(choice.a)
            /\ Len(ev_log) = Len(choice.a)
            /\ choice.size = shots
            /\ \A i \in 1..Len(choice.a) :
                  /\ choice.a[i] =
                         CProdTo(LAMBDA t : dec[t].eigenvalues[ChoiceOf(dec, i, t)],
                                 1, Len(last.name))
                  /\ ev_log[i].call.obs_tensors =
                         [t \in 1..Len(last.name) |->
                             FlattenMatrix(dec[t].projectors[ChoiceOf(dec, i, t)])]
                  /\ ev_log[i].call.wires = last.wires
                  /\ ev_log[i].ok
                  /\ choice.p[i] = RealPart(ev_log[i].expval)
            /\ last.ok => (Len(ret) = shots /\ Range(ret) \subseteq Range(choice.a))

\* sample returned for two observables, one of them not diagonal, after an
\* earlier call changed the State Register
SampleWitness ==
    /\ last.op = "sample"
    /\ last.ok
    /\ ListsMatch
    /\ nops >= 2
    /\ Len(last.name) = 2
    /\ \E t \in 1..2 : LastMatrices[t][2][1] # CZero
    /\ Len(choice.a) = 4
    /\ Len(ret) = shots
    /\ StateNode.tensor # AllZeroTensor(num_wires)
    /\ \E i \in 1..Len(choice.a) : Sign(choice.a[i]) < 0 /\ Sign(choice.p[i]) > 0

\* C9: when expval, var or sample returns, the node and the edge bookkeeping
\* hold no ket, bra, observable or projector node and no edge of that call:
\* they are what they were before the measurement
MeasurementNodesEphemeral ==
    [][MeasurementReturns => (_nodes' = _nodes /\ _edges' = _edges)]_vars

\* ev returned at least once in the last call
EvReturned == Len(ev_log) >= 1 /\ \A i \in 1..Len(ev_log) : ev_log[i].ok

\* the square of the real number im, (P + Q sqrt(2)) / 4^k with
\* P = p^2 + 2 q^2 and Q = 2 p q for im = (p + q sqrt(2)) / 2^k, exceeds the
\* square of the tolerance: (P + Q sqrt(2)) / tolerance^2 - 4^k > 0
SquareExceedsTolerance(im) ==
    \E t2 \in {BigMulFrom(InverseTolerance, InverseTolerance, 1)} :
        SignRoot2(SignedSub(SignedTimes(im[1] * im[1] + 2 * im[2] * im[2], t2),
                            BigPow(4, im[5])),
                  SignedTimes(2 * im[1] * im[2], t2)) > 0

\* C10: ev warns exactly when the absolute imaginary part of the contracted
\* scalar exceeds 1e-10 (its square exceeds 1e-20), and, warning or not,
\* returns the real part of the scalar without raising
ImaginaryPartNonFatal ==
    /\ \A i \in 1..Len(ev_log) :
           ev_log[i].ok =>
               (ev_log[i].warned <=> SquareExceedsTolerance(ImagPart(ev_log[i].expval)))
    /\ (last.op \in {"ev", "expval"} /\ EvReturned) =>
           (last.ok /\ ret = <<RealPart(ev_log[1].expval)>>)
    /\ (last.op = "var" /\ EvReturned /\ Len(ev_log) = 2) =>
           (last.ok /\ ret = <<CSub(RealPart(ev_log[1].expval),
                                    CMul(RealPart(ev_log[2].expval),
                                         RealPart(ev_log[2].expval)))>>)
    /\ (last.op = "sample" /\ EvReturned /\ choice # NoChoice) =>
           choice.p = [i \in 1..Len(ev_log) |-> RealPart(ev_log[i].expval)]

\* expval returned the real part of a scalar whose imaginary part is not 0,
\* after the warning
ImaginaryPartWitness ==
    /\ last.op = "expval"
    /\ last.ok
    /\ Len(ev_log) = 1
    /\ ev_log[1].warned
    /\ ImagPart(ev_log[1].expval) # CZero
    /\ ret = <<RealPart(ev_log[1].expval)>>

\* the call is one that the claim names as failing: a state vector of the
\* wrong length, a preparation on wires other than the full ordered range,
\* an invalid bit array, an unknown operation name, a gate whose wire list
\* repeats a wire
NamedFailure(call) ==
    /\ call.op = "apply"
    /\ IF call.name \in StatePreparations /\ Len(call.par) = 0 THEN FALSE
       ELSE IF call.name = "QubitStateVector"
       THEN ~ValidVector(call.par[1]) \/ call.wires # ListWires(AllWires(num_wires))
       ELSE IF call.name = "BasisState"
       THEN \/ ~ValidBits(call.par[1])
            \/ Len(call.par[1]) = 0
            \/ call.wires # ListWires(AllWires(num_wires))
       ELSE \/ ~KnownName(call.name)
            \/ Cardinality(Range(call.wires.list)) # Len(call.wires.list)

\* C11: when apply raises (state vector of wrong length, preparation on a
\* wire subset other than the full ordered range, invalid basis-state array,
\* unknown operation name, gate whose wire list repeats a wire), the State
\* Register node and its tensor, the free-edge table and the node and edge
\* bookkeeping are what they were before the call
FailedApplyHasNoEffect ==
    [][(nops' = nops + 1 /\ NamedFailure(last') /\ ~last'.ok) =>
            /\ _state_node' = _state_node
            /\ heap'.nodes[_state_node'].tensor = StateNode.tensor
            /\ _free_edges' = _free_edges
            /\ _nodes' = _nodes
            /\ _edges' = _edges]_vars
====
